---- MODULE Spec2Model ----
(***************************************************************************)
(* Verification model of the health-ETF backtesting core:                  *)
(*   src/src/backtest/engine.py      (run_backtest)                        *)
(*   src/src/portfolio/weights_utils.py                                    *)
(* Numbers are exact rationals <<n, d>> (d > 0, lowest terms); the pair    *)
(* <<0, 0>> is NaN.  A DataFrame is a record [index, columns, data] with   *)
(* data a sequence of rows; a Series is a record [index, data].            *)
(***************************************************************************)
EXTENDS Integers, Sequences, FiniteSets, TLC

VARIABLES
    prices,     \* the caller's price panel (DataFrame)
    weights,    \* the caller's weight schedule (DataFrame)
    padFill,    \* pandas' pct_change default: TRUE = fill_method "pad" (2.x), FALSE = none (3.x)
    call,       \* the arguments of the last engine call, or NoCall
    result,     \* what the last call returned (BacktestResult) or raised
    locals,     \* locals of the last call: portfolio_returns (gross of costs)
    first,      \* the result and locals of the first of two calls
    revised,    \* the first date the caller rewrote before calling again, 0 if none
    ret,        \* the table a weight utility returned, and which object it is
    pc          \* caller position

vars == <<prices, weights, padFill, call, result, locals, first, revised, ret, pc>>

-----------------------------------------------------------------------------
(* Bounds of the model.                                                    *)

MaxDays == 3

-----------------------------------------------------------------------------
(* Exact rational arithmetic with NaN (float semantics without rounding).  *)

NaN == <<0, 0>>

IsNaN(x) == x[2] = 0

AbsInt(i) == IF i < 0 THEN -i ELSE i

RECURSIVE GCD(_, _)
GCD(a, b) == IF b = 0 THEN a ELSE GCD(b, a % b)

\* The fraction n/d in lowest terms with a positive denominator (d # 0).
Q(n, d) ==
    IF d = 1 THEN <<n, 1>>
    ELSE IF n = 0 THEN <<0, 1>>
    ELSE LET s == IF d < 0 THEN -1 ELSE 1
             g == GCD(AbsInt(n), AbsInt(d))
         IN  <<(s * n) \div g, (s * d) \div g>>

Zero == <<0, 1>>
One == <<1, 1>>

Add(x, y) == IF IsNaN(x) \/ IsNaN(y) THEN NaN ELSE Q(x[1] * y[2] + y[1] * x[2], x[2] * y[2])
Neg(x) == IF IsNaN(x) THEN NaN ELSE <<-x[1], x[2]>>
Sub(x, y) == Add(x, Neg(y))
Mul(x, y) == IF IsNaN(x) \/ IsNaN(y) THEN NaN ELSE Q(x[1] * y[1], x[2] * y[2])
\* Division by zero does not occur: prices are positive or NaN.
Div(x, y) == IF IsNaN(x) \/ IsNaN(y) \/ y[1] = 0 THEN NaN ELSE Q(x[1] * y[2], x[2] * y[1])
AbsQ(x) == IF IsNaN(x) THEN NaN ELSE <<AbsInt(x[1]), x[2]>>
\* Comparisons with NaN are false.
Less(x, y) == ~IsNaN(x) /\ ~IsNaN(y) /\ x[1] * y[2] < y[1] * x[2]

\* Sum of a sequence of numbers, skipping NaN (pandas skipna=True; empty sum is 0).
RECURSIVE SumSkipNa(_)
SumSkipNa(s) ==
    IF s = <<>> THEN Zero
    ELSE LET rest == SumSkipNa(Tail(s))
         IN  IF IsNaN(Head(s)) THEN rest ELSE Add(Head(s), rest)

-----------------------------------------------------------------------------
(* pandas operations used by the engine, on DataFrames and Series.         *)

NRows(df) == Len(df.data)
NCols(df) == Len(df.columns)

\* The tuple of a function over 1..n, every element computed once.
Mat(s) == s \o <<>>

\* Apply f to every cell at (row t, column c).
MapCells(df, f(_, _)) ==
    [df EXCEPT !.data = Mat([t \in 1..NRows(df) |-> Mat([c \in 1..NCols(df) |-> f(t, c)])])]

\* DataFrame.fillna(v)
FillNa(df, v) ==
    LET f(t, c) == IF IsNaN(df.data[t][c]) THEN v ELSE df.data[t][c]
    IN  MapCells(df, f)

\* DataFrame.shift(1): row t takes row t-1, the first row is NaN.
Shift1(df) ==
    LET f(t, c) == IF t = 1 THEN NaN ELSE df.data[t - 1][c]
    IN  MapCells(df, f)

\* DataFrame.ffill(): each NaN takes the latest earlier non-NaN value of its column.
RECURSIVE LastValid(_, _, _)
LastValid(df, t, c) ==
    IF t = 0 THEN NaN
    ELSE IF ~IsNaN(df.data[t][c]) THEN df.data[t][c]
    ELSE LastValid(df, t - 1, c)

FFill(df) ==
    LET f(t, c) == LastValid(df, t, c)
    IN  MapCells(df, f)

\* DataFrame.pct_change(): data / data.shift(1) - 1, on the padded data when
\* the installed pandas still applies fill_method="pad" by default.
PctChange(df, pad) ==
    LET d == IF pad THEN FFill(df) ELSE df
        s == Shift1(d)
        f(t, c) == Sub(Div(d.data[t][c], s.data[t][c]), One)
    IN  MapCells(df, f)

\* DataFrame.diff(): data - data.shift(1)
Diff(df) ==
    LET s == Shift1(df)
        f(t, c) == Sub(df.data[t][c], s.data[t][c])
    IN  MapCells(df, f)

\* DataFrame.abs()
AbsDf(df) ==
    LET f(t, c) == AbsQ(df.data[t][c])
    IN  MapCells(df, f)

\* a * b, cell by cell (the two frames are aligned)
MulDf(a, b) ==
    LET f(t, c) == Mul(a.data[t][c], b.data[t][c])
    IN  MapCells(a, f)

\* -df.clip(upper=0.0)
NegClipUpper0(df) ==
    LET f(t, c) == IF Less(Zero, df.data[t][c]) THEN Zero ELSE Neg(df.data[t][c])
    IN  MapCells(df, f)

\* DataFrame.sum(axis=1): a Series over the frame's index
SumAxis1(df) ==
    [index |-> df.index, data |-> Mat([t \in 1..NRows(df) |-> SumSkipNa(df.data[t])])]

\* Apply f to every element of a Series.
MapSeries(s, f(_)) == [s EXCEPT !.data = Mat([t \in 1..Len(s.data) |-> f(t)])]

\* Series.fillna(v)
FillNaS(s, v) ==
    LET f(t) == IF IsNaN(s.data[t]) THEN v ELSE s.data[t]
    IN  MapSeries(s, f)

\* Series.iloc[0] = v ; the caller guards emptiness or not
SetFirst(s, v) == [s EXCEPT !.data[1] = v]

\* Series.cumprod()
RECURSIVE CumProdAt(_, _)
CumProdAt(d, t) == IF t = 1 THEN d[1] ELSE Mul(CumProdAt(d, t - 1), d[t])

CumProd(s) ==
    LET f(t) == CumProdAt(s.data, t)
    IN  MapSeries(s, f)

-----------------------------------------------------------------------------
(* src/src/backtest/engine.py                                              *)

TRADING_DAYS == 252

Tickers == <<"A", "B">>

\* Variant: the columns are compared as sets, so their order is not checked.
validate_alignment_unordered(p, w) ==
    IF p.index # w.index THEN "ValueError"
    ELSE IF {p.columns[i] : i \in 1..Len(p.columns)} # {w.columns[i] : i \in 1..Len(w.columns)}
         THEN "ValueError"
    ELSE "ok"

\* _validate_alignment: the name of the error raised, or "ok"
validate_alignment(p, w) ==
    IF p.index # w.index THEN "ValueError"
    ELSE IF p.columns # w.columns THEN "ValueError"
    ELSE "ok"

\* Variant: missing weights are left in the schedule.
filled_weights_kept(w) == w

\* weights = weights.fillna(0.0)
filled_weights(w) == FillNa(w, Zero)

\* asset_returns = prices.pct_change().fillna(0.0)
asset_returns(p, pad) == FillNa(PctChange(p, pad), Zero)

\* Variant: the weights are not lagged (each day earns with its own target weight).
shifted_weights_unlagged(w) == FillNa(w, Zero)

\* shifted_weights = weights.shift(1).fillna(0.0)
shifted_weights(w) == FillNa(Shift1(w), Zero)

\* Variant: day t earns with the row after its lagged row (the day's own target).
portfolio_returns_own_day(sw, ar) ==
    LET f(t, c) == IF t < NRows(sw) THEN Mul(sw.data[t + 1][c], ar.data[t][c]) ELSE Zero
    IN  SumAxis1(MapCells(sw, f))

\* portfolio_returns = (shifted_weights * asset_returns).sum(axis=1)
portfolio_returns(sw, ar) == SumAxis1(MulDf(sw, ar))

\* Variant: the full L1 change, not halved.
turnover_full_l1(w) == FillNaS(SumAxis1(AbsDf(Diff(w))), Zero)

\* turnover = weights.diff().abs().sum(axis=1).fillna(0.0) / 2.0
turnover(w) ==
    LET s == FillNaS(SumAxis1(AbsDf(Diff(w))), Zero)
        f(t) == Div(s.data[t], <<2, 1>>)
    IN  MapSeries(s, f)

\* borrow_cost = (borrow_cost_annual / TRADING_DAYS) * short_notional
borrow_cost(sw, borrow_cost_annual) ==
    LET short_notional == SumAxis1(NegClipUpper0(sw))
        borrow_cost_daily == Div(borrow_cost_annual, <<TRADING_DAYS, 1>>)
        f(t) == Mul(borrow_cost_daily, short_notional.data[t])
    IN  MapSeries(short_notional, f)

\* Variant: the cash weight is not clipped at 0 (a levered book pays the cash rate).
cash_return_unclipped(sw, cash_rate_annual) ==
    LET net_exposure == SumAxis1(sw)
        cash_return_daily == Div(cash_rate_annual, <<TRADING_DAYS, 1>>)
        f(t) == Mul(cash_return_daily, Sub(One, net_exposure.data[t]))
    IN  MapSeries(net_exposure, f)

\* cash_return = (cash_rate_annual / TRADING_DAYS) * (1.0 - net_exposure).clip(lower=0.0)
cash_return(sw, cash_rate_annual) ==
    LET net_exposure == SumAxis1(sw)
        cash_weight(t) ==
            LET x == Sub(One, net_exposure.data[t])
            IN  IF Less(x, Zero) THEN Zero ELSE x
        cash_return_daily == Div(cash_rate_annual, <<TRADING_DAYS, 1>>)
        f(t) == Mul(cash_return_daily, cash_weight(t))
    IN  MapSeries(net_exposure, f)

\* portfolio_returns - tc_rate * turnover - borrow_cost + cash_return
net_of_costs(gross, to, bcost, cret, transaction_cost_bps) ==
    LET tc_rate == Div(transaction_cost_bps, <<10000, 1>>)
        f(t) == Add(Sub(Sub(gross.data[t], Mul(tc_rate, to.data[t])), bcost.data[t]),
                    cret.data[t])
    IN  MapSeries(gross, f)

\* Variant: the first row is not reset.
first_return_kept(dr) == dr

\* if not daily_returns_after_costs.empty: daily_returns_after_costs.iloc[0] = 0.0
first_return_zero(dr) == IF dr.data # <<>> THEN SetFirst(dr, Zero) ELSE dr

\* (1 + daily_returns_after_costs).cumprod()
cumulative_wealth(dr) ==
    LET f(t) == Add(One, dr.data[t])
    IN  CumProd(MapSeries(dr, f))

EmptySeries == [index |-> <<>>, data |-> <<>>]
EmptyFrame == [index |-> <<>>, columns |-> <<>>, data |-> <<>>]
NoMeta == [transaction_cost_bps |-> NaN, borrow_cost_annual |-> NaN, cash_rate_annual |-> NaN]

\* An exception leaves the caller without a BacktestResult.
Raised(err) ==
    [status |-> err, daily_returns |-> EmptySeries, equity_curve |-> EmptySeries,
     weights |-> EmptyFrame, turnover |-> EmptySeries, meta |-> NoMeta]

\* run_backtest up to the turnover: validation, then the tables that do not
\* depend on the cost arguments.  status is "ok" or the exception raised.
engine_locals(p, w, pad) ==
    IF validate_alignment(p, w) # "ok"
    THEN [status |-> validate_alignment(p, w), shifted_weights |-> EmptyFrame,
          portfolio_returns |-> EmptySeries, turnover |-> EmptySeries]
    ELSE
    LET wf == filled_weights(w)
        sw == shifted_weights(wf)
    IN  [status |-> "ok",
         shifted_weights |-> sw,
         portfolio_returns |-> portfolio_returns(sw, asset_returns(p, pad)),
         turnover |-> turnover(wf)]

\* run_backtest from the cost rates on
engine_result(loc, transaction_cost_bps, borrow_cost_annual, cash_rate_annual) ==
    IF loc.status # "ok" THEN Raised(loc.status)
    ELSE
    LET sw == loc.shifted_weights
        bcost == borrow_cost(sw, borrow_cost_annual)
        cret == cash_return(sw, cash_rate_annual)
        dr == first_return_zero(net_of_costs(loc.portfolio_returns, loc.turnover, bcost, cret,
                                             transaction_cost_bps))
    IN  \* equity_curve.iloc[0] = 1.0 is not guarded: on an empty Series iloc raises
        IF dr.data = <<>> THEN Raised("IndexError")
        ELSE [status |-> "returned",
              daily_returns |-> dr,
              equity_curve |-> SetFirst(cumulative_wealth(dr), One),
              weights |-> sw,
              turnover |-> loc.turnover,
              meta |-> [transaction_cost_bps |-> transaction_cost_bps,
                        borrow_cost_annual |-> borrow_cost_annual,
                        cash_rate_annual |-> cash_rate_annual]]

\* run_backtest, the whole call
run_backtest(p, w, transaction_cost_bps, borrow_cost_annual, cash_rate_annual, pad) ==
    engine_result(engine_locals(p, w, pad), transaction_cost_bps, borrow_cost_annual,
                  cash_rate_annual)

-----------------------------------------------------------------------------
(* src/src/portfolio/weights_utils.py                                      *)
(* A utility returns [status, obj, value]: obj tells which object the      *)
(* returned table is, "weights" for the caller's own table (the argument   *)
(* handed back) and "new" for a table built by the call.                   *)

LessEq(x, y) == ~IsNaN(x) /\ ~IsNaN(y) /\ x[1] * y[2] <= y[1] * x[2]

NoTable(err) == [status |-> err, obj |-> "none", value |-> EmptyFrame]

\* Position of c in the tuple cols, 0 if absent.
ColumnOf(cols, c) ==
    IF \E i \in 1..Len(cols) : cols[i] = c
    THEN CHOOSE i \in 1..Len(cols) : cols[i] = c
    ELSE 0

\* extend_to_universe: a zero table over the universe, then the caller's
\* columns copied in
extend_to_universe(w, universe) ==
    LET out == [index |-> w.index, columns |-> universe,
                data |-> Mat([t \in 1..NRows(w) |-> Mat([c \in 1..Len(universe) |-> Zero])])]
        f(t, c) ==
            IF ColumnOf(w.columns, universe[c]) = 0 THEN Zero
            ELSE w.data[t][ColumnOf(w.columns, universe[c])]
    IN  [status |-> "returned", obj |-> "new", value |-> MapCells(out, f)]

\* Position of the latest date of idx (increasing) that is <= d, 0 if none.
LatestAtOrBefore(idx, d) ==
    LET at == {i \in 1..Len(idx) : idx[i] <= d}
    IN  IF at = {} THEN 0 ELSE CHOOSE i \in at : \A j \in at : j <= i

\* forward_fill_to_index: weights.reindex(index, method="ffill").fillna(0.0);
\* each target date takes the whole row of the latest source date at or
\* before it (the source index is increasing).
forward_fill_to_index(w, index) ==
    LET out == [index |-> index, columns |-> w.columns,
                data |-> Mat([t \in 1..Len(index) |-> Mat([c \in 1..NCols(w) |-> NaN])])]
        f(t, c) ==
            IF LatestAtOrBefore(w.index, index[t]) = 0 THEN NaN
            ELSE w.data[LatestAtOrBefore(w.index, index[t])][c]
    IN  [status |-> "returned", obj |-> "new", value |-> FillNa(MapCells(out, f), Zero)]

\* Variant: every day is scaled by cap / gross, also the days under the cap.
cap_gross_leverage_all_days(w, max_gross_leverage) ==
    IF LessEq(max_gross_leverage, Zero) THEN NoTable("ValueError")
    ELSE
    LET gross == SumAxis1(AbsDf(w))
        f(t, c) == Mul(w.data[t][c], Div(max_gross_leverage, gross.data[t]))
    IN  IF \A t \in 1..NRows(w) : ~Less(max_gross_leverage, gross.data[t])
        THEN [status |-> "returned", obj |-> "weights", value |-> w]
        ELSE [status |-> "returned", obj |-> "new", value |-> MapCells(w, f)]

\* cap_gross_leverage: `return weights` hands the argument itself back when
\* no day is over the cap; weights.mul(scale, axis=0) is a new table.
cap_gross_leverage(w, max_gross_leverage) ==
    IF LessEq(max_gross_leverage, Zero) THEN NoTable("ValueError")
    ELSE
    LET gross == SumAxis1(AbsDf(w))
        over(t) == Less(max_gross_leverage, gross.data[t])
        f(t, c) == Mul(w.data[t][c],
                       IF over(t) THEN Div(max_gross_leverage, gross.data[t]) ELSE One)
    IN  IF \A t \in 1..NRows(w) : ~over(t)
        THEN [status |-> "returned", obj |-> "weights", value |-> w]
        ELSE [status |-> "returned", obj |-> "new", value |-> MapCells(w, f)]

-----------------------------------------------------------------------------
(* The calendar.  A date is a day number; every month has DaysPerMonth days *)
(* and resample("ME") labels a month by its last calendar day, whether or   *)
(* not that day is in the index.                                            *)

DaysPerMonth == 2

MonthOf(d) == (d - 1) \div DaysPerMonth + 1
MonthEnd(m) == m * DaysPerMonth

\* Index of x.resample("ME"): one label per month from the first date's
\* month to the last date's month, months without a date included.
ResampleIndex(idx) ==
    IF idx = <<>> THEN <<>>
    ELSE Mat([k \in 1..(MonthOf(idx[Len(idx)]) - MonthOf(idx[1]) + 1) |->
                MonthEnd(MonthOf(idx[1]) + k - 1)])

\* Positions of the dates of idx in the month labelled e.
InMonth(idx, e) == {i \in 1..Len(idx) : MonthOf(idx[i]) = MonthOf(e)}

\* Resampler.last() of one column: the last non-missing value of the month.
LastOfMonth(idx, col, e) ==
    LET valid == {i \in InMonth(idx, e) : ~IsNaN(col[i])}
    IN  IF valid = {} THEN NaN ELSE col[CHOOSE i \in valid : \A j \in valid : j <= i]

\* Resampler.mean() of one column: the mean of the month's non-missing values.
RECURSIVE SumOver(_, _)
SumOver(col, at) ==
    IF at = {} THEN Zero
    ELSE LET i == CHOOSE j \in at : TRUE
         IN  Add(col[i], SumOver(col, at \ {i}))

MeanOfMonth(idx, col, e) ==
    LET valid == {i \in InMonth(idx, e) : ~IsNaN(col[i])}
    IN  IF valid = {} THEN NaN ELSE Div(SumOver(col, valid), <<Cardinality(valid), 1>>)

\* series.resample("ME").last() and .mean()
ResampleLastS(s) ==
    LET idx == ResampleIndex(s.index)
    IN  [index |-> idx, data |-> Mat([k \in 1..Len(idx) |-> LastOfMonth(s.index, s.data, idx[k])])]

ResampleMeanS(s) ==
    LET idx == ResampleIndex(s.index)
    IN  [index |-> idx, data |-> Mat([k \in 1..Len(idx) |-> MeanOfMonth(s.index, s.data, idx[k])])]

\* A column's value n rows earlier (Series.shift(n)), NaN outside the column.
Back(col, t, n) == IF t - n \in 1..Len(col) THEN col[t - n] ELSE NaN

\* Series.ffill() of a column.
RECURSIVE LastValidS(_, _)
LastValidS(col, t) ==
    IF t = 0 THEN NaN
    ELSE IF ~IsNaN(col[t]) THEN col[t]
    ELSE LastValidS(col, t - 1)

FFillS(col) == Mat([t \in 1..Len(col) |-> LastValidS(col, t)])

\* Series.diff(n): x - x.shift(n)
DiffN(col, n) == Mat([t \in 1..Len(col) |-> Sub(col[t], Back(col, t, n))])

\* Series.pct_change(n): x / x.shift(n) - 1, on the padded column when the
\* installed pandas still applies fill_method="pad" by default.
PctChangeN(col, n, pad) ==
    LET x == IF pad THEN FFillS(col) ELSE col
    IN  Mat([t \in 1..Len(col) |-> Sub(Div(x[t], Back(x, t, n)), One)])

\* Series.rolling(n).mean(): the mean of the last n rows when there are n of
\* them and none is missing (min_periods = n).
RollingMean(col, n) ==
    Mat([t \in 1..Len(col) |->
           IF n <= 0 \/ t < n \/ \E i \in (t - n + 1)..t : IsNaN(col[i]) THEN NaN
           ELSE Div(SumOver(col, (t - n + 1)..t), <<n, 1>>)])

\* DataFrame.dropna(how="all")
DropNaAll(df) ==
    LET keep == Mat(SelectSeq(Mat([t \in 1..NRows(df) |-> t]),
                              LAMBDA t : \E c \in 1..NCols(df) : ~IsNaN(df.data[t][c])))
    IN  [index |-> Mat([k \in 1..Len(keep) |-> df.index[keep[k]]]),
         columns |-> df.columns,
         data |-> Mat([k \in 1..Len(keep) |-> df.data[keep[k]]])]

-----------------------------------------------------------------------------
(* src/src/signals/regime.py                                               *)
(* A signal call returns [status, value]: status is "returned" or the      *)
(* exception raised.  A feature column named f"{prefix}{months}m" is the   *)
(* pair <<prefix, months>>.                                                *)

None == <<"None", 0>>

NoSeries(err) == [status |-> err, value |-> EmptySeries]

\* Variant: only negative windows are rejected.
lookbacks_invalid_negative(lookback_months_rate, lookback_months_spy, vix_window_months) ==
    lookback_months_rate < 0 \/ lookback_months_spy < 0 \/ vix_window_months < 0
\* if lookback_months_rate <= 0 or lookback_months_spy <= 0 or vix_window_months <= 0
lookbacks_invalid(lookback_months_rate, lookback_months_spy, vix_window_months) ==
    lookback_months_rate <= 0 \/ lookback_months_spy <= 0 \/ vix_window_months <= 0

\* compute_monthly_features; the three series share their date index.
compute_monthly_features(tnx_yield, spy_prices, vix, lookback_months_rate, lookback_months_spy, vix_window_months, pad) ==
    LET tnx_m == ResampleLastS(tnx_yield)
        spy_m == ResampleLastS(spy_prices)
        vix_m == ResampleMeanS(vix)
        delta_rate == DiffN(tnx_m.data, lookback_months_rate)
        spy_return == PctChangeN(spy_m.data, lookback_months_spy, pad)
        vix_mean == RollingMean(vix_m.data, vix_window_months)
        features ==
            [index |-> tnx_m.index,
             columns |-> <<<<"delta_rate_", lookback_months_rate>>,
                           <<"spy_return_", lookback_months_spy>>,
                           <<"vix_mean_", vix_window_months>>>>,
             data |-> Mat([t \in 1..Len(tnx_m.index) |->
                             <<delta_rate[t], spy_return[t], vix_mean[t]>>])]
    IN  IF lookbacks_invalid(lookback_months_rate, lookback_months_spy, vix_window_months)
        THEN [status |-> "ValueError", value |-> EmptyFrame]
        ELSE [status |-> "returned", value |-> DropNaAll(features)]

\* The decimal digits of n >= 0
RECURSIVE Digits(_)
Digits(n) == IF n < 10 THEN <<n>> ELSE Digits(n \div 10) \o <<n % 10>>

\* Python's string order: character by character, a proper prefix first.
RECURSIVE LexLess(_, _)
LexLess(a, b) ==
    IF b = <<>> THEN FALSE
    ELSE IF a = <<>> THEN TRUE
    ELSE IF a[1] # b[1] THEN a[1] < b[1]
    ELSE LexLess(Tail(a), Tail(b))

\* The characters of f"{months}m" after a common prefix; "m" sorts after the digits.
NameKey(name) == Digits(name[2]) \o <<10>>

\* _infer_feature_col: the column chosen, or KeyError
infer_feature_col(columns, explicit, prefix, fallback) ==
    LET has(name) == \E i \in 1..Len(columns) : columns[i] = name
        matches == {i \in 1..Len(columns) : columns[i][1] = prefix}
    IN  IF explicit # None
        THEN IF has(explicit) THEN [status |-> "ok", col |-> explicit]
             ELSE [status |-> "KeyError", col |-> None]
        ELSE IF Cardinality(matches) = 1
             THEN [status |-> "ok", col |-> columns[CHOOSE i \in matches : TRUE]]
        ELSE IF has(fallback) THEN [status |-> "ok", col |-> fallback]
        ELSE IF matches # {}
             THEN [status |-> "ok",
                   col |-> columns[CHOOSE i \in matches : \A j \in matches :
                                      ~LexLess(NameKey(columns[j]), NameKey(columns[i]))]]
        ELSE [status |-> "KeyError", col |-> None]


\* monthly_features[rate_col] <= rate_threshold ; a comparison with NaN is False
cond_rate(x, rate_threshold) == LessEq(x, rate_threshold)
\* monthly_features[spy_col] >= spy_ret_threshold
\* Variant: the price-return test is strict.
cond_spy_strict(x, spy_ret_threshold) == Less(spy_ret_threshold, x)
cond_spy(x, spy_ret_threshold) == LessEq(spy_ret_threshold, x)
\* monthly_features[vix_col] <= vix_threshold
cond_vix(x, vix_threshold) == LessEq(x, vix_threshold)

\* classify_regime: (cond_rate & cond_spy & cond_vix).astype(int)
classify_regime(monthly_features, rate_threshold, vix_threshold, spy_ret_threshold, rate_feature_col, spy_feature_col, vix_feature_col) ==
    LET cols == monthly_features.columns
        rate_col == infer_feature_col(cols, rate_feature_col, "delta_rate_", <<"delta_rate_", 6>>)
        spy_col == infer_feature_col(cols, spy_feature_col, "spy_return_", <<"spy_return_", 6>>)
        vix_col == infer_feature_col(cols, vix_feature_col, "vix_mean_", <<"vix_mean_", 1>>)
        cell(t, c) == monthly_features.data[t][ColumnOf(cols, c.col)]
        risk_on(t) ==
            IF /\ cond_rate(cell(t, rate_col), rate_threshold)
               /\ cond_spy(cell(t, spy_col), spy_ret_threshold)
               /\ cond_vix(cell(t, vix_col), vix_threshold)
            THEN 1 ELSE 0
    IN  IF rate_col.status # "ok" \/ spy_col.status # "ok" \/ vix_col.status # "ok"
        THEN NoSeries("KeyError")
        ELSE [status |-> "returned",
              value |-> [index |-> monthly_features.index,
                         data |-> Mat([t \in 1..NRows(monthly_features) |-> risk_on(t)])]]

-----------------------------------------------------------------------------
(* src/src/signals/momentum.py                                             *)

\* DataFrame.shift(n): the row n places earlier, NaN outside the table.
ShiftN(df, n) ==
    LET f(t, c) == IF t - n \in 1..NRows(df) THEN df.data[t - n][c] ELSE NaN
    IN  MapCells(df, f)

\* a / b - 1.0 cell by cell, for tables with the same index and columns.
Ratio(a, b) ==
    LET f(t, c) == Sub(Div(a.data[t][c], b.data[t][c]), One)
    IN  MapCells(a, f)

\* raw_mom = monthly_prices / monthly_prices.shift(lookback_months) - 1.0
raw_mom(monthly_prices, lookback_months) ==
    Ratio(monthly_prices, ShiftN(monthly_prices, lookback_months))

\* Variant: the raw momentum is not shifted.
momentum_unshifted(raw) == raw
\* momentum = raw_mom.shift(1)
momentum(raw) == ShiftN(raw, 1)

compute_momentum_signal(monthly_prices, lookback_months) ==
    momentum(raw_mom(monthly_prices, lookback_months))

\* compute_12m_1m_momentum: monthly_prices.shift(1) / monthly_prices.shift(12) - 1.0
compute_12m_1m_momentum(monthly_prices) ==
    Ratio(ShiftN(monthly_prices, 1), ShiftN(monthly_prices, 12))

\* Variant: a trailing return of exactly 0 passes the gate.
compute_ts_momentum_flag_inclusive(monthly_prices, lookback_months) ==
    LET ts_ret == raw_mom(monthly_prices, lookback_months)
        f(t, c) == IF LessEq(Zero, ts_ret.data[t][c]) THEN 1 ELSE 0
    IN  MapCells(ts_ret, f)

\* compute_ts_momentum_flag: (ts_ret > 0).astype(int)
compute_ts_momentum_flag(monthly_prices, lookback_months) ==
    LET ts_ret == raw_mom(monthly_prices, lookback_months)
        f(t, c) == IF Less(Zero, ts_ret.data[t][c]) THEN 1 ELSE 0
    IN  MapCells(ts_ret, f)

-----------------------------------------------------------------------------
(* Volatilities.  A volatility is the square root of a variance, so it is   *)
(* held exactly as <<s, q>>, standing for s * sqrt(q): s is its sign and q   *)
(* its square; a missing volatility is <<0, NaN>>.                          *)

NaNVol == <<0, NaN>>
IsNaNVol(v) == IsNaN(v[2])
Sign(x) == IF x[1] > 0 THEN 1 ELSE IF x[1] < 0 THEN -1 ELSE 0

\* The volatility whose value is the number x.
VolOf(x) == IF IsNaN(x) THEN NaNVol ELSE <<Sign(x), Mul(x, x)>>

\* The largest k with k * k <= n, for lo * lo <= n < hi * hi.
RECURSIVE ISqrtIn(_, _, _)
ISqrtIn(n, lo, hi) ==
    IF hi - lo <= 1 THEN lo
    ELSE LET mid == (lo + hi) \div 2
         IN  IF mid * mid <= n THEN ISqrtIn(n, mid, hi) ELSE ISqrtIn(n, lo, mid)

ISqrt(n) == ISqrtIn(n, 0, IF n < 46340 THEN n + 1 ELSE 46340)

\* The ratio a / b of two volatilities of the same sign with b # 0: the
\* rational whose square is a's square over b's square.
VolRatio(a, b) ==
    LET q == Div(a[2], b[2])
    IN  CHOOSE r \in {<<ISqrt(q[1]), ISqrt(q[2])>>} : Mul(r, r) = q

-----------------------------------------------------------------------------
(* src/src/portfolio/vol_target.py: estimate_rolling_vol                    *)

\* Population variance (ddof=0) of rows lo..t of column c.
RECURSIVE SumRows(_, _, _, _, _)
SumRows(df, c, lo, t, sq) ==
    IF t < lo THEN Zero
    ELSE Add(IF sq THEN Mul(df.data[t][c], df.data[t][c]) ELSE df.data[t][c],
             SumRows(df, c, lo, t - 1, sq))

WindowVar(df, c, lo, t) ==
    LET n == <<t - lo + 1, 1>>
        mean == Div(SumRows(df, c, lo, t, FALSE), n)
    IN  Sub(Div(SumRows(df, c, lo, t, TRUE), n), Mul(mean, mean))

\* daily_returns.rolling(lookback_days, min_periods=1).std(ddof=0) * sqrt(252):
\* the window is the last lookback_days rows, fewer at the start.
estimate_rolling_vol(daily_returns, lookback_days) ==
    LET f(t, c) ==
            LET lo == IF t - lookback_days + 1 < 1 THEN 1 ELSE t - lookback_days + 1
                v == Mul(<<TRADING_DAYS, 1>>, WindowVar(daily_returns, c, lo, t))
            IN  IF IsNaN(v) THEN NaNVol ELSE <<Sign(v), v>>
    IN  MapCells(daily_returns, f)

-----------------------------------------------------------------------------
(* src/src/signals/ls_biotech_pharma.py                                    *)
(* An optional argument is <<>> for None and <<x>> for the value x.  A      *)
(* spread momentum m is a log return: it is held as the price ratio e^m it  *)
(* is the log of, and spread_mom_threshold likewise, so that m > threshold  *)
(* is the comparison of the two ratios.                                     *)

RiskOffModes == {"flat", "long_pharma", "reverse"}

\* A builder returns [status, obj, value] and, for the claims, its locals
\* monthly_df, vol_df and spread_momentum; an exception leaves none of them.
NoWeights(err) ==
    [status |-> err, obj |-> "none", value |-> EmptyFrame, monthly_df |-> EmptyFrame,
     daily_weights |-> EmptyFrame, vol_df |-> EmptyFrame, spread_momentum |-> EmptySeries]

Built(monthly_df, vol_df, spread_momentum, value) ==
    [status |-> "returned", obj |-> "new", value |-> value, monthly_df |-> monthly_df,
     daily_weights |-> value, vol_df |-> vol_df, spread_momentum |-> spread_momentum]

\* pd.Series({long_ticker: 1.0, short_ticker: -1.0})
risk_on_weights == <<One, Neg(One)>>

\* Variant: "long_pharma" behaves as "reverse".
risk_off_weights_reversed(risk_off_mode) ==
    IF risk_off_mode = "flat" THEN <<Zero, Zero>> ELSE <<Neg(One), One>>
\* The row of a month whose label is not 1.
risk_off_weights(risk_off_mode) ==
    IF risk_off_mode = "flat" THEN <<Zero, Zero>>
    ELSE IF risk_off_mode = "long_pharma" THEN <<Zero, One>>
    ELSE <<Neg(One), One>>

\* monthly_df.reindex(index, method="ffill").fillna(0.0)
\*           .reindex(columns=columns, fill_value=0.0)
\* Variant of the reindex: each date takes the first monthly row at or after it.
reindex_bfill(monthly_idx, d) ==
    LET at == {i \in 1..Len(monthly_idx) : monthly_idx[i] >= d}
    IN  IF at = {} THEN 0 ELSE CHOOSE i \in at : \A j \in at : i <= j
\* The monthly row a date takes: the latest at or before it, 0 if none.
reindex_ffill(monthly_idx, d) == LatestAtOrBefore(monthly_idx, d)

daily_weights(monthly_df, index, columns) ==
    [index |-> index, columns |-> columns,
     data |-> Mat([t \in 1..Len(index) |->
                Mat([c \in 1..Len(columns) |->
                   LET row == reindex_ffill(monthly_df.index, index[t])
                       col == ColumnOf(monthly_df.columns, columns[c])
                   IN  IF row = 0 \/ col = 0 THEN Zero
                       ELSE IF IsNaN(monthly_df.data[row][col]) THEN Zero
                       ELSE monthly_df.data[row][col]])])]

\* build_monthly_ls_weights_simple
build_monthly_ls_weights_simple(regime_labels, dates, long_ticker, short_ticker, risk_off_mode) ==
    IF risk_off_mode \notin RiskOffModes THEN NoWeights("ValueError")
    ELSE LET tickers == <<long_ticker, short_ticker>>
             monthly_df ==
                 [index |-> regime_labels.index, columns |-> tickers,
                  data |-> Mat([m \in 1..Len(regime_labels.index) |->
                                  IF regime_labels.data[m] = 1 THEN risk_on_weights
                                  ELSE risk_off_weights(risk_off_mode)])]
         IN  Built(monthly_df, EmptyFrame, EmptySeries,
                   daily_weights(monthly_df, dates, tickers))

\* compute_spread_momentum: log(ratio) - log(ratio).shift(lookback_months) of
\* the month-end price ratio long / short, held as ratio / ratio.shift.
compute_spread_momentum(p, long_ticker, short_ticker, lookback_months) ==
    LET idx == ResampleIndex(p.index)
        l == ColumnOf(p.columns, long_ticker)
        s == ColumnOf(p.columns, short_ticker)
        col(c) == Mat([t \in 1..NRows(p) |-> p.data[t][c]])
        ratio == Mat([k \in 1..Len(idx) |->
                        Div(LastOfMonth(p.index, col(l), idx[k]),
                            LastOfMonth(p.index, col(s), idx[k]))])
    IN  IF l = 0 \/ s = 0 THEN NoSeries("KeyError")
        ELSE [status |-> "returned",
              value |-> [index |-> idx,
                         data |-> Mat([k \in 1..Len(idx) |->
                                         Div(ratio[k], Back(ratio, k, lookback_months))])]]

\* vols <= 0 for a volatility that is not missing
NonPositive(v) == v[1] <= 0

\* vols.isna().any() or (vols <= 0).any()
vols_unusable(vol_long, vol_short) ==
    IsNaNVol(vol_long) \/ IsNaNVol(vol_short) \/ NonPositive(vol_long) \/ NonPositive(vol_short)

\* Variant: equal notional on the two legs.
inverse_vol_split_equal(vol_long, vol_short) == <<<<1, 2>>, <<1, 2>>>>
\* inv_vol / inv_vol.sum() for the two legs:
\* (1/vl) / (1/vl + 1/vs) = 1 / (1 + vl/vs) and (1/vs) / (1/vl + 1/vs).
inverse_vol_split(vol_long, vol_short) ==
    LET r == VolRatio(vol_long, vol_short)
    IN  <<Div(One, Add(One, r)), Div(r, Add(One, r))>>

\* compute_risk_balanced_ls_weights: the pair <<long weight, short weight>>.
\* total = inv_vol.sum() is positive once both volatilities are.
compute_risk_balanced_ls_weights(vol_long, vol_short, target_gross_exposure) ==
    IF vols_unusable(vol_long, vol_short) THEN <<Zero, Zero>>
    ELSE LET split == inverse_vol_split(vol_long, vol_short)
         IN  <<Mul(split[1], target_gross_exposure), Neg(Mul(split[2], target_gross_exposure))>>

\* reg == 1 and pd.notna(smom) and smom > spread_mom_threshold
gate_open(reg, smom, spread_mom_threshold) ==
    reg = 1 /\ ~IsNaN(smom) /\ Less(spread_mom_threshold, smom)

\* Index.intersection of two increasing indexes
Intersection(a, b) == SelectSeq(a, LAMBDA d : \E j \in 1..Len(b) : b[j] = d)

\* The volatility of ticker in the row of vol_df, NaNVol for a ticker the
\* table does not have (Series.reindex).
VolAt(vol_df, row, ticker) ==
    IF ColumnOf(vol_df.columns, ticker) = 0 THEN NaNVol
    ELSE vol_df.data[row][ColumnOf(vol_df.columns, ticker)]

\* _build_monthly_ls_weights_risk_balanced
build_monthly_ls_weights_risk_balanced(regime_labels, p, vol_df, spread_momentum, long_ticker, short_ticker, target_gross_exposure, spread_mom_threshold) ==
    LET monthly_index == Mat(Intersection(spread_momentum.index, regime_labels.index))
        reg(date) == regime_labels.data[ColumnOf(regime_labels.index, date)]
        smom(date) == spread_momentum.data[ColumnOf(spread_momentum.index, date)]
        open(date) == gate_open(reg(date), smom(date), spread_mom_threshold)
        \* vol_df.loc[date] if date in vol_df.index else vol_df.loc[:date].iloc[-1]
        vol_row(date) == LatestAtOrBefore(vol_df.index, date)
        w(date) == compute_risk_balanced_ls_weights(VolAt(vol_df, vol_row(date), long_ticker),
                                                    VolAt(vol_df, vol_row(date), short_ticker),
                                                    target_gross_exposure)
        columns == p.columns \o SelectSeq(<<long_ticker, short_ticker>>,
                                          LAMBDA t : ColumnOf(p.columns, t) = 0)
        monthly_df ==
            [index |-> monthly_index, columns |-> columns,
             data |-> Mat([m \in 1..Len(monthly_index) |->
                        Mat([c \in 1..Len(columns) |->
                           IF ~open(monthly_index[m])
                           THEN (IF c <= NCols(p) THEN Zero ELSE NaN)
                           ELSE IF columns[c] = short_ticker THEN w(monthly_index[m])[2]
                           ELSE IF columns[c] = long_ticker THEN w(monthly_index[m])[1]
                           ELSE Zero])])]
    IN  IF \E m \in 1..Len(monthly_index) : open(monthly_index[m]) /\ vol_row(monthly_index[m]) = 0
        THEN NoWeights("IndexError")
        ELSE Built(monthly_df, vol_df, spread_momentum,
                   daily_weights(monthly_df, p.index, p.columns))

\* build_monthly_ls_weights
build_monthly_ls_weights(regime_labels, dates, p, vol_df, spread_momentum, long_ticker, short_ticker, target_gross_exposure, spread_mom_threshold, risk_off_mode, spread_mom_lookback_months, vol_lookback_days, pad) ==
    IF p = <<>>
    THEN IF dates = <<>> THEN NoWeights("ValueError")
         ELSE build_monthly_ls_weights_simple(regime_labels, dates[1], long_ticker,
                                              short_ticker, risk_off_mode)
    ELSE LET vols == IF vol_df = <<>>
                     THEN estimate_rolling_vol(FillNa(PctChange(p[1], pad), Zero),
                                               vol_lookback_days)
                     ELSE vol_df[1]
             smom == IF spread_momentum = <<>>
                     THEN compute_spread_momentum(p[1], long_ticker, short_ticker,
                                                  spread_mom_lookback_months)
                     ELSE [status |-> "returned", value |-> spread_momentum[1]]
         IN  IF smom.status # "returned" THEN NoWeights(smom.status)
             ELSE build_monthly_ls_weights_risk_balanced(
                      regime_labels, p[1], vols, smom.value, long_ticker, short_ticker,
                      target_gross_exposure, spread_mom_threshold)

-----------------------------------------------------------------------------
(* Weights sized to a target volatility are square roots too: such a        *)
(* number is held like a volatility, as <<s, q>> for s * sqrt(q).           *)

RtZero == <<0, Zero>>
RtMul(a, b) == <<a[1] * b[1], Mul(a[2], b[2])>>
RtDiv(a, b) == <<a[1] * b[1], Div(a[2], b[2])>>
RtLess(a, b) ==
    IF a[1] # b[1] THEN a[1] < b[1]
    ELSE IF a[1] = 1 THEN Less(a[2], b[2])
    ELSE IF a[1] = -1 THEN Less(b[2], a[2])
    ELSE FALSE

\* Sum of the rationals f[i], i in the set at.
RECURSIVE SumSet(_, _)
SumSet(f, at) ==
    IF at = {} THEN Zero
    ELSE LET i == CHOOSE j \in at : TRUE
         IN  Add(f[i], SumSet(f, at \ {i}))

\* xs.abs().sum() of a sequence of such numbers: |x_b| times the sum of the
\* ratios |x_i| / |x_b|, for a non-zero x_b.
RtAbsSum(xs) ==
    LET nz == {i \in 1..Len(xs) : xs[i][1] # 0}
        b == CHOOSE i \in nz : TRUE
        ratio == [i \in nz |-> VolRatio(<<1, xs[i][2]>>, <<1, xs[b][2]>>)]
        total == SumSet(ratio, nz)
    IN  IF nz = {} THEN RtZero ELSE <<1, Mul(xs[b][2], Mul(total, total))>>

-----------------------------------------------------------------------------
(* src/src/portfolio/vol_target.py: scale_weights_to_target_vol             *)
(* risk_weights and current_vols are given on the same tickers, as two      *)
(* sequences: rational weights and volatilities.                            *)

\* Variant: the scaled weights are returned without the leverage cap.
capped_never(scaled_w, max_gross_leverage) == scaled_w

\* if gross > max_gross_leverage and gross > 0: scaled_w *= max_gross_leverage / gross
capped(scaled_w, max_gross_leverage) ==
    LET gross == RtAbsSum(scaled_w)
    IN  IF RtLess(VolOf(max_gross_leverage), gross) /\ gross[1] > 0
        THEN Mat([i \in 1..Len(scaled_w) |->
                    RtMul(scaled_w[i], RtDiv(VolOf(max_gross_leverage), gross))])
        ELSE scaled_w

scale_weights_to_target_vol(risk_weights, current_vols, target_vol_annual, max_gross_leverage) ==
    LET n == Len(risk_weights)
        zeros == Mat([i \in 1..n |-> RtZero])
        w == Mat([i \in 1..n |-> IF IsNaN(risk_weights[i]) THEN Zero ELSE risk_weights[i]])
        known == {i \in 1..n : ~IsNaNVol(current_vols[i])}
        \* ((w ** 2) * (vols ** 2)).sum(), missing volatilities skipped
        unscaled_var == SumSet([i \in known |-> Mul(Mul(w[i], w[i]), current_vols[i][2])], known)
        unscaled_vol == <<Sign(unscaled_var), unscaled_var>>
        scale == IF target_vol_annual[1] # 0 /\ unscaled_vol[1] # 0
                 THEN RtDiv(VolOf(target_vol_annual), unscaled_vol)
                 ELSE RtZero
        scaled_w == Mat([i \in 1..n |-> RtMul(VolOf(w[i]), scale)])
    IN  IF n = 0 THEN zeros
        ELSE IF known = {} \/ (\A i \in 1..n : w[i] = Zero) THEN zeros
        ELSE IF ~Less(Zero, unscaled_var) THEN zeros
        ELSE capped(scaled_w, max_gross_leverage)

-----------------------------------------------------------------------------
(* src/src/signals/rotation_signals.py                                     *)
(* The weights of the rotation builder are held as <<s, q>> numbers.        *)

HcUniverse == <<"XBI", "XPH", "IHF", "IHI", "XLV">>

\* hc_tickers = [t for t in [...] if t in prices.columns]
hc_tickers(columns) == SelectSeq(HcUniverse, LAMBDA t : ColumnOf(columns, t) # 0)

\* prices.resample("ME").last()
ResampleLast(p) ==
    LET idx == ResampleIndex(p.index)
    IN  [index |-> idx, columns |-> p.columns,
         data |-> Mat([k \in 1..Len(idx) |->
                    Mat([c \in 1..NCols(p) |->
                       LET valid == {i \in InMonth(p.index, idx[k]) : ~IsNaN(p.data[i][c])}
                       IN  IF valid = {} THEN NaN
                           ELSE p.data[CHOOSE i \in valid : \A j \in valid : j <= i][c]])])]

\* df[columns]
SelectColumns(df, columns) ==
    [index |-> df.index, columns |-> columns,
     data |-> Mat([t \in 1..NRows(df) |->
                Mat([c \in 1..Len(columns) |-> df.data[t][ColumnOf(df.columns, columns[c])]])])]

\* The volatility of column c on row t of estimate_rolling_vol(daily_returns).
RollingVolAt(daily_returns, lookback_days, t, c) ==
    LET lo == IF t - lookback_days + 1 < 1 THEN 1 ELSE t - lookback_days + 1
        v == Mul(<<TRADING_DAYS, 1>>, WindowVar(daily_returns, c, lo, t))
    IN  IF IsNaN(v) THEN NaNVol ELSE <<Sign(v), v>>

\* Variant: every scored asset is a winner, whatever k is.
NLargest_all(row, at, k) ==
    CHOOSE s \in [1..Cardinality(at) -> at] : \A c \in at : \E i \in 1..Cardinality(at) : s[i] = c

\* scores.nlargest(k).index.tolist(): the k highest scores, the earlier
\* column first among equal scores.
RECURSIVE NLargest(_, _, _)
NLargest(row, at, k) ==
    IF k <= 0 \/ at = {} THEN <<>>
    ELSE LET best == CHOOSE c \in at :
                        \A d \in at : Less(row[d], row[c]) \/ (row[d] = row[c] /\ c <= d)
                            \/ c = d
         IN  <<best>> \o NLargest(row, at \ {best}, k - 1)

\* Variant: the trend filter lets a flat benchmark through.
trend_off_strict(x) == Less(x, Zero)
\* pd.notna(xlv_trend.loc[date]) and xlv_trend.loc[date] <= 0
trend_off(x) == LessEq(x, Zero)

\* The month's row when scores.max() <= 0.
defensive_row(columns, defensive_on_negative_momentum, defensive_ticker) ==
    Mat([c \in 1..Len(columns) |->
           IF defensive_on_negative_momentum /\ defensive_ticker # <<>>
                 /\ columns[c] = defensive_ticker[1]
           THEN VolOf(One)
           ELSE RtZero])

\* The row of monthly weights of rebalance month m.
rotation_row(p, m, date, hc, momentum_scores, ts_flags, xlv_trend, daily_returns, top_k, target_vol_annual, use_ts_mom_gating, max_gross_leverage, defensive_ticker, defensive_on_negative_momentum) ==
    LET zero_row == Mat([c \in 1..NCols(p) |-> RtZero])
        row == momentum_scores.data[m]
        scores == {c \in 1..Len(hc) : ~IsNaN(row[c])}
        eligible == IF use_ts_mom_gating THEN {c \in scores : ts_flags.data[m][c] = 1}
                    ELSE scores
        vol_row == LatestAtOrBefore(p.index, date)
        vol(winners, i) ==
            RollingVolAt(daily_returns, 60, vol_row, ColumnOf(p.columns, hc[winners[i]]))
        \* .replace(0.0, pd.NA).dropna()
        sized_of(winners) ==
            Mat(SelectSeq(Mat([i \in 1..Len(winners) |-> i]),
                          LAMBDA i : \E v \in {vol(winners, i)} : ~IsNaNVol(v) /\ v[1] # 0))
        current_vols_of(winners, sized) ==
            Mat([k \in 1..Len(sized) |-> vol(winners, sized[k])])
        \* inv_vol / inv_vol.sum()
        risk_w_of(sized, current_vols) ==
            Mat([k \in 1..Len(sized) |->
                   Div(One, SumSet([j \in 1..Len(sized) |->
                                      VolRatio(current_vols[k], current_vols[j])],
                                   1..Len(sized)))])
        sized_row(winners, sized, scaled_w) ==
            Mat([c \in 1..NCols(p) |->
                   IF \E k \in 1..Len(sized) : hc[winners[sized[k]]] = p.columns[c]
                   THEN scaled_w[CHOOSE k \in 1..Len(sized) :
                                    hc[winners[sized[k]]] = p.columns[c]]
                   ELSE RtZero])
    IN  IF xlv_trend # <<>> /\ trend_off(xlv_trend[1][m]) THEN zero_row
        ELSE IF scores = {} THEN zero_row
        ELSE IF \A c \in scores : LessEq(row[c], Zero)
        THEN defensive_row(p.columns, defensive_on_negative_momentum, defensive_ticker)
        ELSE IF eligible = {} \/ \A c \in eligible : LessEq(row[c], Zero) THEN zero_row
        ELSE CHOOSE out \in
                UNION UNION
                    {{{IF sized = <<>> THEN zero_row
                       ELSE CHOOSE sized_w \in
                               {sized_row(winners, sized, scaled_w) :
                                   scaled_w \in
                                       {scale_weights_to_target_vol(
                                            risk_w_of(sized, current_vols), current_vols,
                                            target_vol_annual, max_gross_leverage)}} : TRUE :
                          current_vols \in {current_vols_of(winners, sized)}} :
                        sized \in {sized_of(winners)}} :
                      winners \in {NLargest(row, eligible,
                                            IF top_k < Cardinality(eligible) THEN top_k
                                            ELSE Cardinality(eligible))}} : TRUE

\* monthly_df.reindex(prices.index, method="ffill").fillna(0.0)
\*           .reindex(columns=prices.columns, fill_value=0.0)
rotation_daily_weights(monthly_df, p) ==
    [index |-> p.index, columns |-> p.columns,
     data |-> Mat([t \in 1..NRows(p) |->
                LET row == reindex_ffill(monthly_df.index, p.index[t])
                IN  IF row = 0 THEN Mat([c \in 1..NCols(p) |-> RtZero])
                    ELSE monthly_df.data[row]])]

\* Variant: the daily weights are returned without the final re-cap.
recapped_never(daily, max_gross_leverage) == daily

\* gross = daily_weights.abs().sum(axis=1); over = gross > max_gross_leverage;
\* daily_weights.mul((max_gross_leverage / gross).where(over, 1.0), axis=0)
recapped(daily, max_gross_leverage) ==
    [daily EXCEPT !.data =
        Mat([t \in 1..Len(daily.data) |->
               LET gross == RtAbsSum(daily.data[t])
               IN  IF RtLess(VolOf(max_gross_leverage), gross)
                   THEN Mat([c \in 1..Len(daily.data[t]) |->
                               RtMul(daily.data[t][c], RtDiv(VolOf(max_gross_leverage), gross))])
                   ELSE daily.data[t]])]

\* What the builder returns and, for the claims, its locals.
RotationBuilt(value, monthly_df, daily, monthly_prices, momentum_scores) ==
    [status |-> "returned", obj |-> "new", value |-> value, monthly_df |-> monthly_df,
     daily_weights |-> daily, monthly_prices |-> monthly_prices,
     momentum_scores |-> momentum_scores]

\* build_monthly_rotation_weights, for a panel with at least one date.
build_monthly_rotation_weights(p, lookback_months, top_k, target_vol_annual, use_12m1m, use_ts_mom_gating, use_xlv_trend_filter, xlv_ticker, ts_lookback_months, max_gross_leverage, defensive_ticker, defensive_on_negative_momentum, pad) ==
    LET hc == hc_tickers(p.columns)
        xlv == ColumnOf(p.columns, xlv_ticker)
        signals_of(monthly_prices) ==
            LET hc_prices == SelectColumns(monthly_prices, hc)
            IN  [momentum_scores |->
                     IF use_12m1m THEN compute_12m_1m_momentum(hc_prices)
                     ELSE compute_momentum_signal(hc_prices, lookback_months),
                 ts_flags |->
                     IF use_ts_mom_gating
                     THEN compute_ts_momentum_flag(hc_prices, ts_lookback_months)
                     ELSE EmptyFrame,
                 \* monthly_prices[xlv_ticker] / monthly_prices[xlv_ticker].shift(12) - 1.0
                 xlv_trend |->
                     IF use_xlv_trend_filter /\ xlv # 0
                     THEN <<Mat([m \in 1..NRows(monthly_prices) |->
                               Sub(Div(monthly_prices.data[m][xlv],
                                       IF m - 12 >= 1 THEN monthly_prices.data[m - 12][xlv]
                                       ELSE NaN),
                                   One)])>>
                     ELSE <<>>,
                 daily_returns |-> FillNa(PctChange(p, pad), Zero)]
        monthly_df_of(monthly_prices, s) ==
            [index |-> monthly_prices.index, columns |-> p.columns,
             data |-> Mat([m \in 1..NRows(monthly_prices) |->
                             rotation_row(p, m, monthly_prices.index[m], hc, s.momentum_scores,
                                          s.ts_flags, s.xlv_trend, s.daily_returns, top_k,
                                          target_vol_annual, use_ts_mom_gating,
                                          max_gross_leverage, defensive_ticker,
                                          defensive_on_negative_momentum)])]
        built(monthly_prices, s, monthly_df, daily) ==
            RotationBuilt(recapped(daily, max_gross_leverage), monthly_df, daily, monthly_prices,
                          s.momentum_scores)
    IN  CHOOSE out \in
            UNION UNION UNION
                {{{{built(monthly_prices, s, monthly_df, daily) :
                        daily \in {rotation_daily_weights(monthly_df, p)}} :
                      monthly_df \in {monthly_df_of(monthly_prices, s)}} :
                    s \in {signals_of(monthly_prices)}} :
                  monthly_prices \in {ResampleLast(p)}} : TRUE

-----------------------------------------------------------------------------
(* src/src/portfolio/vol_target.py: build_vol_target_weights                *)
(* vols is the row vol_df.loc[current_date, selected_tickers], one          *)
(* volatility per selected ticker; <<>> when current_date is not in vol_df. *)

\* vols.replace(0.0, np.nan).dropna(): the positions that are kept
usable_vols(vols) == {i \in 1..Len(vols) : ~IsNaNVol(vols[i]) /\ vols[i][1] # 0}

\* raw_weights = inv_vol / inv_vol.sum(), read with .get(t, 0.0)
inverse_vol_weights(vols, kept) ==
    Mat([i \in 1..Len(vols) |->
           IF i \in kept
           THEN Div(One, SumSet([j \in kept |-> VolRatio(vols[i], vols[j])], kept))
           ELSE Zero])

\* avg_vol = (raw_weights * vols).sum(), as a multiple of one of the vols
average_vol(raw_weights, vols, kept) ==
    LET b == CHOOSE i \in kept : TRUE
        total == SumSet([i \in kept |-> Mul(raw_weights[i], VolRatio(vols[i], vols[b]))], kept)
    IN  <<Sign(total) * vols[b][1], Mul(vols[b][2], Mul(total, total))>>

build_vol_target_weights(in_index, vols, target_vol_annual) ==
    LET zeros == Mat([i \in 1..Len(vols) |-> RtZero])
        kept == usable_vols(vols)
        raw_weights == inverse_vol_weights(vols, kept)
        avg_vol == average_vol(raw_weights, vols, kept)
        ratio == RtDiv(VolOf(target_vol_annual), avg_vol)
        \* scale = min(1.0, target_vol_annual / avg_vol)
        scale == IF avg_vol[1] > 0 /\ Less(Zero, target_vol_annual)
                 THEN IF RtLess(ratio, VolOf(One)) THEN ratio ELSE VolOf(One)
                 ELSE VolOf(One)
    IN  IF ~in_index THEN zeros
        ELSE IF kept = {} THEN zeros
        \* inv_vol.sum() <= 0, for volatilities of one sign
        ELSE IF \E i \in kept : vols[i][1] < 0 THEN zeros
        ELSE Mat([i \in 1..Len(vols) |-> RtMul(VolOf(raw_weights[i]), scale)])

-----------------------------------------------------------------------------
(* src/src/analysis/metrics.py                                              *)
(* A ratio whose denominator is a volatility is held as <<s, q>>, like a    *)
(* volatility; not-a-number is <<0, NaN>>.  CAGR is a fractional power and  *)
(* is held unevaluated.                                                     *)

\* np.finfo(float).eps is 2^-52.  A positive number of the model has a
\* square n/d with d below 2^31, which is above eps squared: x <= eps is
\* decided by the sign.
at_most_eps(x) == x[1] <= 0

\* The values of a series that are present.
Valid(xs) == {i \in 1..Len(xs) : ~IsNaN(xs[i])}

\* Series.mean(): skips missing values, NaN when none is present.
MeanS(xs) ==
    IF Valid(xs) = {} THEN NaN ELSE Div(SumSet(xs, Valid(xs)), <<Cardinality(Valid(xs)), 1>>)

\* The square of Series.std(ddof=0).
VarS(xs) ==
    LET mean == MeanS(xs)
    IN  IF Valid(xs) = {} THEN NaN
        ELSE Div(SumSet([i \in Valid(xs) |-> Mul(Sub(xs[i], mean), Sub(xs[i], mean))], Valid(xs)),
                 <<Cardinality(Valid(xs)), 1>>)

\* What a metric returns, or the error it raises.
Metric(value) == [status |-> "returned", value |-> value]

\* compute_annual_vol: std(ddof=0) * sqrt(252)
compute_annual_vol(daily_returns) ==
    IF daily_returns.data = <<>> THEN NaNVol
    ELSE LET v == Mul(VarS(daily_returns.data), <<TRADING_DAYS, 1>>)
         IN  IF IsNaN(v) THEN NaNVol ELSE <<Sign(v), v>>

\* Variant: the volatility is not compared with eps before the division.
compute_sharpe_unguarded(daily_returns, risk_free_rate_annual) ==
    LET annual_vol == compute_annual_vol(daily_returns)
        excess_return == Sub(Mul(MeanS(daily_returns.data), <<TRADING_DAYS, 1>>),
                             risk_free_rate_annual)
    IN  IF daily_returns.data = <<>> THEN Metric(NaNVol)
        ELSE IF IsNaNVol(annual_vol) THEN Metric(NaNVol)
        ELSE IF annual_vol[1] = 0 THEN [status |-> "ZeroDivisionError", value |-> NaNVol]
        ELSE Metric(RtDiv(VolOf(excess_return), annual_vol))

compute_sharpe(daily_returns, risk_free_rate_annual) ==
    LET annual_vol == compute_annual_vol(daily_returns)
        excess_return == Sub(Mul(MeanS(daily_returns.data), <<TRADING_DAYS, 1>>),
                             risk_free_rate_annual)
    IN  IF daily_returns.data = <<>> THEN Metric(NaNVol)
        ELSE IF IsNaNVol(annual_vol) \/ at_most_eps(annual_vol) THEN Metric(NaNVol)
        ELSE Metric(RtDiv(VolOf(excess_return), annual_vol))

\* (1 + r).cumprod() of a return sequence; a missing value is skipped.
RECURSIVE EquityAt(_, _)
EquityAt(xs, t) ==
    IF t = 0 THEN One
    ELSE IF IsNaN(xs[t]) THEN EquityAt(xs, t - 1)
    ELSE Mul(EquityAt(xs, t - 1), Add(One, xs[t]))

\* equity_curve.cummax() at position t
CumMaxAt(xs, t) ==
    LET at == {i \in 1..t : ~IsNaN(xs[i])}
    IN  IF at = {} THEN NaN
        ELSE xs[CHOOSE i \in at : \A j \in at : ~Less(xs[i], xs[j])]

\* compute_max_drawdown: abs((equity_curve / running_max - 1.0).min())
compute_max_drawdown(equity_curve) ==
    LET xs == equity_curve.data
        drawdowns == Mat([t \in 1..Len(xs) |->
                            IF IsNaN(xs[t]) THEN NaN
                            ELSE Sub(Div(xs[t], CumMaxAt(xs, t)), One)])
        at == Valid(drawdowns)
    IN  IF xs = <<>> \/ at = {} THEN NaN
        ELSE AbsQ(drawdowns[CHOOSE i \in at : \A j \in at : ~Less(drawdowns[j], drawdowns[i])])

\* compute_cagr: total_return ** (252 / n_days) - 1, the power left as it is
compute_cagr(daily_returns) ==
    IF daily_returns.data = <<>> THEN NaNVol
    ELSE [total_return |-> EquityAt(daily_returns.data, Len(daily_returns.data)),
          n_days |-> Len(daily_returns.data)]

compute_sortino(daily_returns, risk_free_rate_annual, target_return_annual) ==
    LET xs == daily_returns.data
        daily_rf == Div(risk_free_rate_annual, <<TRADING_DAYS, 1>>)
        daily_target == Div(target_return_annual, <<TRADING_DAYS, 1>>)
        excess == Mat([t \in 1..Len(xs) |-> Sub(xs[t], daily_rf)])
        \* (daily_returns - daily_target).clip(upper=0.0)
        downside == Mat([t \in 1..Len(xs) |->
                           IF Less(Zero, Sub(xs[t], daily_target)) THEN Zero
                           ELSE Sub(xs[t], daily_target)])
        dv == Mul(VarS(downside), <<TRADING_DAYS, 1>>)
        downside_vol == IF IsNaN(dv) THEN NaNVol ELSE <<Sign(dv), dv>>
        annual_excess == Mul(MeanS(excess), <<TRADING_DAYS, 1>>)
    IN  IF xs = <<>> THEN Metric(NaNVol)
        ELSE IF IsNaNVol(downside_vol) \/ at_most_eps(downside_vol) THEN Metric(NaNVol)
        ELSE Metric(RtDiv(VolOf(annual_excess), downside_vol))

compute_calmar(daily_returns) ==
    LET xs == daily_returns.data
        \* (1 + daily_returns.fillna(0.0)).cumprod()
        equity_curve == [index |-> daily_returns.index,
                         data |-> Mat([t \in 1..Len(xs) |-> EquityAt(xs, t)])]
        mdd == compute_max_drawdown(equity_curve)
    IN  IF xs = <<>> THEN Metric(NaNVol)
        ELSE IF IsNaN(mdd) \/ at_most_eps(VolOf(mdd)) THEN Metric(NaNVol)
        ELSE Metric([cagr |-> compute_cagr(daily_returns), mdd |-> mdd])

\* pd.concat([a, b], axis=1, join="inner").dropna(): the pairs of values on
\* the dates the two series share, both present
aligned_pairs(a, b) ==
    LET rows == SelectSeq(Mat([i \in 1..Len(a.index) |-> i]),
                          LAMBDA i : /\ \E j \in 1..Len(b.index) : b.index[j] = a.index[i]
                                     /\ ~IsNaN(a.data[i])
                                     /\ ~IsNaN(b.data[CHOOSE j \in 1..Len(b.index) :
                                                         b.index[j] = a.index[i]]))
    IN  Mat([k \in 1..Len(rows) |->
               <<a.data[rows[k]],
                 b.data[CHOOSE j \in 1..Len(b.index) : b.index[j] = a.index[rows[k]]]>>])

compute_information_ratio(strategy_returns, benchmark_returns) ==
    LET aligned == aligned_pairs(strategy_returns, benchmark_returns)
        active == Mat([k \in 1..Len(aligned) |-> Sub(aligned[k][1], aligned[k][2])])
        var == VarS(active)
    IN  IF Len(aligned) < 2 THEN Metric(NaNVol)
        ELSE IF var = Zero THEN Metric(NaNVol)
        ELSE Metric(RtDiv(VolOf(MeanS(active)), <<1, var>>))

\* compute_correlation: Pearson correlation of the aligned pairs, NaN when a
\* side is constant
compute_correlation(series_a, series_b) ==
    LET aligned == aligned_pairs(series_a, series_b)
        xs == Mat([k \in 1..Len(aligned) |-> aligned[k][1]])
        ys == Mat([k \in 1..Len(aligned) |-> aligned[k][2]])
        cov == MeanS(Mat([k \in 1..Len(aligned) |->
                            Mul(Sub(xs[k], MeanS(xs)), Sub(ys[k], MeanS(ys)))]))
    IN  IF Len(aligned) < 2 THEN Metric(NaNVol)
        ELSE IF VarS(xs) = Zero \/ VarS(ys) = Zero THEN Metric(NaNVol)
        ELSE Metric(RtDiv(VolOf(cov), <<1, Mul(VarS(xs), VarS(ys))>>))

-----------------------------------------------------------------------------
(* src/src/analysis/robustness.py, src/src/analysis/robustness_extension.py *)
(* A sweep returns [status, value]: value is the list of the rows of the    *)
(* returned DataFrame, one record per results.append.  An optional argument *)
(* is <<>> when it is None and <<x>> when it is x; so is a grid value that  *)
(* may be None.                                                             *)

\* Variant: the lists are walked in step (zip), not combined.
product_zip(lists) ==
    LET shortest == CHOOSE n \in {Len(lists[l]) : l \in 1..Len(lists)} :
                        \A l \in 1..Len(lists) : n <= Len(lists[l])
    IN  Mat([n \in 1..shortest |-> Mat([l \in 1..Len(lists) |-> lists[l][n]])])

\* itertools.product(*lists), in the order it is iterated: the last list
\* varies fastest.
RECURSIVE product(_)
product(lists) ==
    IF lists = <<>> THEN << <<>> >>
    ELSE LET first_list == Head(lists)
             before(rest) ==
                 Mat([n \in 1..(Len(first_list) * Len(rest)) |->
                        <<first_list[((n - 1) \div Len(rest)) + 1]>>
                            \o rest[((n - 1) % Len(rest)) + 1]])
         IN  CHOOSE grid \in {before(rest) : rest \in {product(Tail(lists))}} : TRUE

\* The float a sized weight is: s * sqrt(q) for a q that is a square.
WeightValue(w) ==
    IF IsNaNVol(w) THEN NaN
    ELSE LET r == CHOOSE x \in {<<ISqrt(w[2][1]), ISqrt(w[2][2])>>} : Mul(x, x) = w[2]
         IN  <<w[1] * r[1], r[2]>>

WeightValues(w) ==
    [w EXCEPT !.data = Mat([t \in 1..Len(w.data) |->
                              Mat([c \in 1..Len(w.data[t]) |-> WeightValue(w.data[t][c])])])]

\* An iteration that raised appends nothing.
NoRow(err) == [status |-> err, row |-> <<>>]

\* pd.DataFrame(results): the rows in the order they were appended; an
\* exception raised in an iteration leaves the caller without a table.
swept(rows) ==
    LET bad == {n \in 1..Len(rows) : rows[n].status # "returned"}
    IN  IF bad = {} THEN [status |-> "returned", value |-> Mat([n \in 1..Len(rows) |-> rows[n].row])]
        ELSE [status |-> rows[CHOOSE n \in bad : \A k \in bad : n <= k].status, value |-> <<>>]

\* prices[["XBI", "XPH"]] raises KeyError when a leg is not a column.
has_legs(p) == ColumnOf(p.columns, "XBI") # 0 /\ ColumnOf(p.columns, "XPH") # 0

\* split_periods: returns.loc[returns.index < split_date] and the rest.
split_periods(returns, split_date) ==
    LET before == Mat(SelectSeq(Mat([t \in 1..Len(returns.index) |-> t]),
                                LAMBDA t : returns.index[t] < split_date))
        from == Mat(SelectSeq(Mat([t \in 1..Len(returns.index) |-> t]),
                              LAMBDA t : returns.index[t] >= split_date))
        part(at) == [index |-> Mat([k \in 1..Len(at) |-> returns.index[at[k]]]),
                     data |-> Mat([k \in 1..Len(at) |-> returns.data[at[k]]])]
    IN  <<part(before), part(from)>>

\* The body of the loop of sweep_regime_parameters for one grid point.
regime_parameters_row(p, tnx_yield, spy_prices, vix, rate_th, vix_th, spy_th, transaction_cost_bps, pad) ==
    LET regimes_of(features) ==
            IF features.status # "returned" THEN NoSeries(features.status)
            ELSE classify_regime(features.value, rate_th, vix_th, spy_th, None, None, None)
        ls_weights_of(regimes) ==
            IF regimes.status # "returned" THEN NoWeights(regimes.status)
            ELSE build_monthly_ls_weights(regimes.value, <<p.index>>, <<>>, <<>>, <<>>,
                                          "XBI", "XPH", One, Zero, "flat", 6, 60, pad)
        bt_of(ls_weights) ==
            IF ls_weights.status # "returned" THEN Raised(ls_weights.status)
            ELSE IF ~has_legs(p) THEN Raised("KeyError")
            ELSE run_backtest(SelectColumns(p, <<"XBI", "XPH">>), ls_weights.value,
                              transaction_cost_bps, Zero, Zero, pad)
        row_of(bt) ==
            IF bt.status # "returned" THEN NoRow(bt.status)
            ELSE [status |-> "returned",
                  row |-> [rate_threshold |-> rate_th, vix_threshold |-> vix_th,
                           spy_ret_threshold |-> spy_th,
                           cagr |-> compute_cagr(bt.daily_returns),
                           vol |-> compute_annual_vol(bt.daily_returns),
                           sharpe |-> compute_sharpe(bt.daily_returns, Zero).value,
                           max_drawdown |-> compute_max_drawdown(bt.equity_curve)]]
    IN  \* each step is evaluated once, on the value of the step before
        CHOOSE row \in
            {row_of(bt) : bt \in
                {bt_of(ls_weights) : ls_weights \in
                    {ls_weights_of(regimes) : regimes \in
                        {regimes_of(features) : features \in
                            {compute_monthly_features(tnx_yield, spy_prices, vix, 6, 6, 1,
                                                      pad)}}}}} : TRUE

\* for rate_th, vix_th, spy_th in itertools.product(...): ...; results.append({...})
sweep_regime_parameters(p, tnx_yield, spy_prices, vix, rate_thresholds, vix_thresholds, spy_ret_thresholds, transaction_cost_bps, pad) ==
    LET grid == product(<<rate_thresholds, vix_thresholds, spy_ret_thresholds>>)
    IN  swept(Mat([n \in 1..Len(grid) |->
                     regime_parameters_row(p, tnx_yield, spy_prices, vix, grid[n][1], grid[n][2],
                                           grid[n][3], transaction_cost_bps, pad)]))

\* The body of the loop of sweep_momentum_parameters for one grid point.
momentum_parameters_row(p, lb, k, tv, transaction_cost_bps, pad) ==
    LET bt_of(w) ==
            run_backtest(p, WeightValues(w.value), transaction_cost_bps, Zero, Zero, pad)
        row_of(bt) ==
            IF bt.status # "returned" THEN NoRow(bt.status)
            ELSE [status |-> "returned",
                  row |-> [lookback |-> lb, top_k |-> k, target_vol |-> tv,
                           cagr |-> compute_cagr(bt.daily_returns),
                           vol |-> compute_annual_vol(bt.daily_returns),
                           sharpe |-> compute_sharpe(bt.daily_returns, Zero).value,
                           max_drawdown |-> compute_max_drawdown(bt.equity_curve)]]
    IN  CHOOSE row \in
            {row_of(bt) : bt \in
                {bt_of(w) : w \in
                    {build_monthly_rotation_weights(p, lb, k, tv, TRUE, TRUE, TRUE, "XLV", 12,
                                                    <<3, 2>>, <<>>, TRUE, pad)}}} : TRUE

\* for lb, k, tv in itertools.product(lookbacks, top_ks, target_vols): ...
sweep_momentum_parameters(p, lookbacks, top_ks, target_vols, transaction_cost_bps, pad) ==
    LET grid == product(<<lookbacks, top_ks, target_vols>>)
    IN  swept(Mat([n \in 1..Len(grid) |->
                     momentum_parameters_row(p, grid[n][1], grid[n][2], grid[n][3],
                                             transaction_cost_bps, pad)]))

\* The body of the loop of sweep_rotation_parameters for one grid point g =
\* (lb, k, use_ts, use_12, use_xlv, ts_lb, tv, mg).
rotation_parameters_row(p, g, transaction_cost_bps, split_date, pad) ==
    LET bt_of(w) ==
            run_backtest(p, WeightValues(w.value), transaction_cost_bps, Zero, Zero, pad)
        row_of(bt) ==
            IF bt.status # "returned" THEN NoRow(bt.status)
            ELSE LET periods == split_periods(bt.daily_returns, split_date)
                 IN  [status |-> "returned",
                      row |-> [lookback |-> g[1], top_k |-> g[2], use_ts |-> g[3],
                               use_12m1m |-> g[4], use_xlv_filter |-> g[5],
                               ts_lookback |-> g[6], target_vol |-> g[7], max_gross |-> g[8],
                               sharpe_full |-> compute_sharpe(bt.daily_returns, Zero).value,
                               sharpe_in |-> compute_sharpe(periods[1], Zero).value,
                               sharpe_out |-> compute_sharpe(periods[2], Zero).value]]
    IN  CHOOSE row \in
            {row_of(bt) : bt \in
                {bt_of(w) : w \in
                    {build_monthly_rotation_weights(p, g[1], g[2], g[7], g[4], g[3], g[5],
                                                    "XLV", g[6], g[8], <<>>, TRUE, pad)}}} : TRUE

\* for lb, k, use_ts, use_12, use_xlv, ts_lb, tv, mg in itertools.product(...): ...
sweep_rotation_parameters(p, lookbacks, top_ks, use_ts_flags, use_12m1m_flags, use_xlv_filters, ts_lookbacks, target_vols, max_gross_list, transaction_cost_bps, split_date, pad) ==
    LET grid == product(<<lookbacks, top_ks, use_ts_flags, use_12m1m_flags, use_xlv_filters,
                          ts_lookbacks, target_vols, max_gross_list>>)
    IN  swept(Mat([n \in 1..Len(grid) |->
                     rotation_parameters_row(p, grid[n], transaction_cost_bps, split_date, pad)]))

\* thresholds or [None]: a list that is None or empty is replaced by [None].
or_none(thresholds) ==
    IF thresholds = <<>> \/ thresholds[1] = <<>> THEN << <<>> >>
    ELSE Mat([i \in 1..Len(thresholds[1]) |-> <<thresholds[1][i]>>])

\* rt if rt is not None else default
or_default(th, default) == IF th = <<>> THEN default ELSE th[1]

\* The body of the loop of sweep_regime_ls_parameters for the grid point
\* (sm_th, tg, (rt, vt, st)).
regime_ls_parameters_row(p, vol_df, regime_labels, spread_momentum, sm_th, tg, rt, vt, st, monthly_features, transaction_cost_bps, split_date, pad) ==
    LET regimes ==
            IF monthly_features # <<>> /\ (rt # <<>> \/ vt # <<>> \/ st # <<>>)
            THEN classify_regime(monthly_features[1], or_default(rt, <<-1, 2>>),
                                 or_default(vt, <<25, 1>>), or_default(st, Zero),
                                 None, None, None)
            ELSE [status |-> "returned", value |-> regime_labels]
        w_of(reg) ==
            IF reg.status # "returned" THEN NoWeights(reg.status)
            ELSE IF ~has_legs(p) THEN NoWeights("KeyError")
            ELSE build_monthly_ls_weights(reg.value, <<>>,
                                          <<SelectColumns(p, <<"XBI", "XPH">>)>>, <<vol_df>>,
                                          <<spread_momentum>>, "XBI", "XPH", tg, sm_th, "flat",
                                          6, 60, pad)
        bt_of(w) ==
            IF w.status # "returned" THEN Raised(w.status)
            ELSE run_backtest(SelectColumns(p, <<"XBI", "XPH">>), w.value,
                              transaction_cost_bps, Zero, Zero, pad)
        row_of(bt) ==
            IF bt.status # "returned" THEN NoRow(bt.status)
            ELSE LET periods == split_periods(bt.daily_returns, split_date)
                 IN  [status |-> "returned",
                      row |-> [spread_mom_th |-> sm_th, target_gross |-> tg, rate_th |-> rt,
                               vix_th |-> vt, spy_th |-> st,
                               sharpe_full |-> compute_sharpe(bt.daily_returns, Zero).value,
                               sharpe_in |-> compute_sharpe(periods[1], Zero).value,
                               sharpe_out |-> compute_sharpe(periods[2], Zero).value]]
    IN  CHOOSE row \in
            {row_of(bt) : bt \in {bt_of(w) : w \in {w_of(reg) : reg \in {regimes}}}} : TRUE

\* macro_grid = list(itertools.product(rate_thresholds or [None], ...));
\* for sm_th, tg, (rt, vt, st) in itertools.product(..., macro_grid): ...
sweep_regime_ls_parameters(p, vol_df, regime_labels, spread_momentum, spread_mom_thresholds, target_gross_list, monthly_features, rate_thresholds, vix_thresholds, spy_ret_thresholds, transaction_cost_bps, split_date, pad) ==
    LET macro_grid == product(<<or_none(rate_thresholds), or_none(vix_thresholds),
                                or_none(spy_ret_thresholds)>>)
        grid == product(<<spread_mom_thresholds, target_gross_list, macro_grid>>)
    IN  swept(Mat([n \in 1..Len(grid) |->
                     regime_ls_parameters_row(p, vol_df, regime_labels, spread_momentum,
                                              grid[n][1], grid[n][2], grid[n][3][1],
                                              grid[n][3][2], grid[n][3][3], monthly_features,
                                              transaction_cost_bps, split_date, pad)]))


-----------------------------------------------------------------------------
(* The caller: inputs, the module-level settings, and calls of the engine. *)

Half == <<1, 2>>

\* One row of the price panel: the closes of A and B on one date.
PriceRows == {<<One, <<2, 1>>>>, <<<<2, 1>>, One>>, <<NaN, <<2, 1>>>>}

\* One row of the weight schedule: the target weights of A and B on one date.
WeightRows == {<<One, One>>, <<Neg(One), One>>, <<NaN, Neg(Half)>>}

\* Cost arguments. The rates are dyadic per day (1/2 per unit of turnover,
\* 1/4 and 1 per day) so that the exact fractions of a compounded equity curve
\* stay inside TLC's 32-bit integers.
CostBps == {Zero, <<5000, 1>>}
BorrowAnnual == {Zero, <<63, 1>>}
CashAnnual == {Zero, <<252, 1>>}

DateIndex(n) == Mat([i \in 1..n |-> i])

Frame(idx, cols, rows) == [index |-> idx, columns |-> cols, data |-> rows]

\* Aligned inputs: n dates, the tickers in the panel's order.
PricePanels(n) == {Frame(DateIndex(n), Tickers, Mat(rows)) : rows \in [1..n -> PriceRows]}
Schedules(n) == {Frame(DateIndex(n), Tickers, Mat(rows)) : rows \in [1..n -> WeightRows]}

\* Schedules whose date index or ticker columns differ from the panel's:
\* other dates, dates in another order, fewer or more dates; tickers in
\* another order, another ticker, fewer or more tickers.
IndexVariants(n) ==
    {DateIndex(n), DateIndex(n + 1), Mat([i \in 1..n |-> i + 1]), Mat([i \in 1..n |-> n + 1 - i])}
        \cup (IF n > 0 THEN {DateIndex(n - 1)} ELSE {})

ColumnVariants == {Tickers, <<"B", "A">>, <<"A", "C">>, <<"A">>, <<"A", "B", "C">>}

Misaligned(n) ==
    {Frame(idx, cols, Mat([t \in 1..Len(idx) |-> Mat([c \in 1..Len(cols) |-> One])])) :
        idx \in IndexVariants(n), cols \in ColumnVariants}
    \ {w \in Schedules(n) : TRUE}

\* A panel that repeats one row.
FlatPanels(n) == {Frame(DateIndex(n), Tickers, Mat([t \in 1..n |-> row])) : row \in PriceRows}

NoCall == [transaction_cost_bps |-> NaN, borrow_cost_annual |-> NaN, cash_rate_annual |-> NaN]

\* Nothing has been called yet.
Idle ==
    /\ call = NoCall
    /\ result = Raised("none")
    /\ locals = [portfolio_returns |-> EmptySeries]
    /\ first = [result |-> Raised("none"), locals |-> [portfolio_returns |-> EmptySeries]]
    /\ revised = 0
    /\ ret = NoTable("none")
    /\ pc = "start"

Init ==
    /\ \E n \in 0..MaxDays :
          \/ prices \in PricePanels(n) /\ weights \in Schedules(n)
          \/ prices \in FlatPanels(n) /\ weights \in Misaligned(n)
    /\ padFill \in BOOLEAN
    /\ Idle

\* result = run_backtest(prices, weights, tc, bc, cr)
Call ==
    /\ pc = "start"
    /\ \E loc \in {engine_locals(prices, weights, padFill)} :
          /\ \E tc \in CostBps, bc \in BorrowAnnual, cr \in CashAnnual :
                /\ call' = [transaction_cost_bps |-> tc, borrow_cost_annual |-> bc,
                            cash_rate_annual |-> cr]
                /\ result' = engine_result(loc, tc, bc, cr)
          /\ locals' = [portfolio_returns |-> loc.portfolio_returns]
    /\ pc' = "called"
    /\ UNCHANGED <<prices, weights, padFill, first, revised, ret>>

Next == Call

Spec == Init /\ [][Next]_vars

\* The caller withdraws the targets from date t on (rows t.. become missing)
\* and runs the engine again on the same prices with the same cost arguments.
\* Any two schedules that agree before t both agree before t with this
\* withdrawn schedule, so comparing every schedule with its withdrawn one
\* compares every such pair.
Withdrawn(w, t) ==
    LET f(s, c) == IF s < t THEN w.data[s][c] ELSE NaN
    IN  MapCells(w, f)

Revise ==
    /\ pc = "called"
    /\ result.status = "returned"
    /\ \E t \in 1..NRows(weights) :
          /\ revised' = t
          /\ weights' = Withdrawn(weights, t)
          /\ \E loc \in {engine_locals(prices, Withdrawn(weights, t), padFill)} :
                /\ result' = engine_result(loc, call.transaction_cost_bps,
                                           call.borrow_cost_annual, call.cash_rate_annual)
                /\ locals' = [portfolio_returns |-> loc.portfolio_returns]
    /\ first' = [result |-> result, locals |-> locals]
    /\ pc' = "revised"
    /\ UNCHANGED <<prices, padFill, call, ret>>

\* Panels with every close present.
CleanPanels(n) == {p \in PricePanels(n) : \A t \in 1..n, c \in 1..Len(Tickers) : ~IsNaN(p.data[t][c])}

InitRevise ==
    /\ \E n \in 1..MaxDays : prices \in CleanPanels(n) /\ weights \in Schedules(n)
    /\ padFill \in BOOLEAN
    /\ Idle

NextRevise == Call \/ Revise

SpecRevise == InitRevise /\ [][NextRevise]_vars

\* Arguments of the weight utilities.
Caps == {Zero, One, <<2, 1>>}
Universes == {Tickers, <<"B">>, <<"A", "B", "C">>}
TargetIndexes(n) == {DateIndex(n + 1), Mat([i \in 1..n |-> i - 1]), Mat([i \in 1..n |-> 2 * i])}

\* returned = cap_gross_leverage(weights, cap)
CapGrossLeverage ==
    /\ pc = "start"
    /\ \E cap \in Caps :
          /\ ret' = cap_gross_leverage(weights, cap)
          /\ call' = [fn |-> "cap_gross_leverage", max_gross_leverage |-> cap]
    /\ pc' = "returned"
    /\ UNCHANGED <<prices, weights, padFill, result, locals, first, revised>>

\* again = cap_gross_leverage(returned, cap), with the cap of the first call
CapAgain ==
    /\ pc = "returned"
    /\ "fn" \in DOMAIN call /\ call.fn = "cap_gross_leverage"
    /\ ret.status = "returned"
    /\ locals' = [once |-> ret.value]
    /\ ret' = cap_gross_leverage(ret.value, call.max_gross_leverage)
    /\ pc' = "capped_again"
    /\ UNCHANGED <<prices, weights, padFill, call, result, first, revised>>

\* returned = extend_to_universe(weights, universe)
ExtendToUniverse ==
    /\ pc = "start"
    /\ \E universe \in Universes : ret' = extend_to_universe(weights, universe)
    /\ pc' = "returned"
    /\ UNCHANGED <<prices, weights, padFill, call, result, locals, first, revised>>

\* returned = forward_fill_to_index(weights, index)
ForwardFillToIndex ==
    /\ pc = "start"
    /\ \E index \in TargetIndexes(NRows(weights)) : ret' = forward_fill_to_index(weights, index)
    /\ pc' = "returned"
    /\ UNCHANGED <<prices, weights, padFill, call, result, locals, first, revised>>

\* returned = run_backtest(prices, weights).weights, the table of the result
\* bundle (shifted_weights, built by shift and fillna)
Backtest ==
    /\ pc = "start"
    /\ \E res \in {run_backtest(prices, weights, Zero, Zero, Zero, padFill)} :
          /\ result' = res
          /\ ret' = IF res.status = "returned"
                    THEN [status |-> "returned", obj |-> "new", value |-> res.weights]
                    ELSE NoTable(res.status)
    /\ call' = [transaction_cost_bps |-> Zero, borrow_cost_annual |-> Zero,
                cash_rate_annual |-> Zero]
    /\ pc' = "returned"
    /\ UNCHANGED <<prices, weights, padFill, locals, first, revised>>

\* returned.iloc[t, c] = v: the caller overwrites one cell of the returned
\* table; the write lands in the caller's schedule when the two are one object.
EditReturned ==
    /\ pc = "returned"
    /\ ret.status = "returned"
    /\ \E t \in 1..NRows(ret.value), c \in 1..NCols(ret.value) :
          LET v == IF ret.value.data[t][c] = Zero THEN One ELSE Zero
              edited == [ret.value EXCEPT !.data[t][c] = v]
          IN  /\ ret' = [ret EXCEPT !.value = edited]
              /\ weights' = IF ret.obj = "weights" THEN edited ELSE weights
    /\ pc' = "edited"
    /\ UNCHANGED <<prices, padFill, call, result, locals, first, revised>>

InitFrame ==
    /\ \E n \in 0..MaxDays : prices \in FlatPanels(n) /\ weights \in Schedules(n)
    /\ padFill \in BOOLEAN
    /\ Idle

NextFrame ==
    \/ CapGrossLeverage
    \/ CapAgain
    \/ ExtendToUniverse
    \/ ForwardFillToIndex
    \/ Backtest
    \/ EditReturned

SpecFrame == InitFrame /\ [][NextFrame]_vars

-----------------------------------------------------------------------------
(* Callers of the regime classifier.                                       *)

MaxFeatureRows == 2

\* One month of features <<rate change, price return, vol-index mean>>: at
\* the default thresholds, clear of them, one feature failing, one missing.
FeatureRows ==
    {<<Zero, Zero, <<25, 1>>>>, <<Neg(One), One, <<20, 1>>>>,
     <<One, Zero, <<25, 1>>>>, <<NaN, Zero, <<25, 1>>>>,
     <<Zero, Neg(One), <<25, 1>>>>, <<Zero, NaN, <<25, 1>>>>,
     <<Zero, Zero, <<30, 1>>>>, <<Zero, Zero, NaN>>,
     <<NaN, NaN, NaN>>}

RegimeThresholds ==
    {[rate_threshold |-> Zero, vix_threshold |-> <<25, 1>>, spy_ret_threshold |-> Zero],
     [rate_threshold |-> Neg(One), vix_threshold |-> <<20, 1>>, spy_ret_threshold |-> One]}

\* Column layouts of a feature table: the names, what each column holds
\* ("decoy" is a column the classifier must not read), the explicit
\* rate_feature_col, and whether the three columns can be resolved.
FeatureLayouts ==
    {[columns |-> <<<<"delta_rate_", 6>>, <<"spy_return_", 6>>, <<"vix_mean_", 1>>>>,
      roles |-> <<"rate", "spy", "vix">>, rate_feature_col |-> None, resolves |-> TRUE],
     [columns |-> <<<<"vix_mean_", 3>>, <<"delta_rate_", 12>>, <<"spy_return_", 1>>>>,
      roles |-> <<"vix", "rate", "spy">>, rate_feature_col |-> None, resolves |-> TRUE],
     [columns |-> <<<<"delta_rate_", 3>>, <<"delta_rate_", 12>>, <<"spy_return_", 6>>,
                    <<"vix_mean_", 1>>>>,
      roles |-> <<"decoy", "rate", "spy", "vix">>, rate_feature_col |-> None, resolves |-> TRUE],
     [columns |-> <<<<"delta_rate_", 3>>, <<"delta_rate_", 6>>, <<"spy_return_", 6>>,
                    <<"vix_mean_", 1>>>>,
      roles |-> <<"decoy", "rate", "spy", "vix">>, rate_feature_col |-> None, resolves |-> TRUE],
     [columns |-> <<<<"delta_rate_", 6>>, <<"other_", 0>>, <<"spy_return_", 6>>,
                    <<"vix_mean_", 1>>>>,
      roles |-> <<"decoy", "rate", "spy", "vix">>, rate_feature_col |-> <<"other_", 0>>,
      resolves |-> TRUE],
     [columns |-> <<<<"delta_rate_", 6>>, <<"spy_return_", 6>>>>,
      roles |-> <<"rate", "spy">>, rate_feature_col |-> None, resolves |-> FALSE],
     [columns |-> <<<<"delta_rate_", 6>>, <<"spy_return_", 6>>, <<"vix_mean_", 1>>>>,
      roles |-> <<"rate", "spy", "vix">>, rate_feature_col |-> <<"other_", 0>>,
      resolves |-> FALSE]}

\* The value a decoy column holds: it fails and differs from every feature.
Decoy == <<5, 1>>

FeatureTable(layout, rows) ==
    LET value(row, role) ==
            CASE role = "rate" -> row[1]
              [] role = "spy" -> row[2]
              [] role = "vix" -> row[3]
              [] OTHER -> Decoy
    IN  Frame(DateIndex(Len(rows)), layout.columns,
              Mat([t \in 1..Len(rows) |->
                     Mat([c \in 1..Len(layout.columns) |-> value(rows[t], layout.roles[c])])]))

NoFrames == prices = EmptyFrame /\ weights = EmptyFrame

\* regimes = classify_regime(monthly_features, thresholds, rate_feature_col=...)
ClassifyRegime ==
    /\ pc = "start"
    /\ \E n \in 0..MaxFeatureRows, layout \in FeatureLayouts, thr \in RegimeThresholds :
          \E rows \in [1..n -> FeatureRows] :
             /\ call' = [fn |-> "classify_regime", rows |-> Mat(rows), layout |-> layout,
                         monthly_features |-> FeatureTable(layout, Mat(rows)),
                         thresholds |-> thr]
             /\ result' = classify_regime(FeatureTable(layout, Mat(rows)), thr.rate_threshold,
                                          thr.vix_threshold, thr.spy_ret_threshold,
                                          layout.rate_feature_col, None, None)
    /\ pc' = "called"
    /\ UNCHANGED <<prices, weights, padFill, locals, first, revised, ret>>

MaxMonths == 3

\* Date indexes of daily series: the first k calendar days, and the first
\* day of each of the first m months (no month-end date is in the index).
TradingIndexes ==
    {DateIndex(k) : k \in 0..(MaxMonths * DaysPerMonth)}
        \cup {Mat([m \in 1..n |-> MonthEnd(m - 1) + 1]) : n \in 1..MaxMonths}

\* Daily macro series: rising levels, or levels missing in every other month.
MacroShapes == {"rising", "gaps"}

MacroSeries(idx, shape) ==
    [index |-> idx,
     data |-> Mat([i \in 1..Len(idx) |->
                     IF shape = "gaps" /\ MonthOf(idx[i]) % 2 = 0 THEN NaN ELSE <<idx[i], 1>>])]

Lookbacks == -1..2

\* features = compute_monthly_features(tnx_yield, spy_prices, vix, ...)
ComputeMonthlyFeatures ==
    /\ pc = "start"
    /\ \E idx \in TradingIndexes, tnx \in MacroShapes, spy \in MacroShapes, vx \in MacroShapes,
          lookback_months_rate \in Lookbacks, lookback_months_spy \in Lookbacks,
          vix_window_months \in Lookbacks :
          /\ call' = [fn |-> "compute_monthly_features", index |-> idx,
                      tnx_yield |-> MacroSeries(idx, tnx), spy_prices |-> MacroSeries(idx, spy),
                      vix |-> MacroSeries(idx, vx),
                      lookback_months_rate |-> lookback_months_rate,
                      lookback_months_spy |-> lookback_months_spy,
                      vix_window_months |-> vix_window_months]
          /\ result' = compute_monthly_features(MacroSeries(idx, tnx), MacroSeries(idx, spy),
                                                MacroSeries(idx, vx), lookback_months_rate,
                                                lookback_months_spy, vix_window_months, padFill)
    /\ pc' = "called"
    /\ UNCHANGED <<prices, weights, padFill, locals, first, revised, ret>>

InitRegime ==
    /\ NoFrames
    /\ padFill \in BOOLEAN
    /\ Idle

NextRegime == ClassifyRegime \/ ComputeMonthlyFeatures

SpecRegime == InitRegime /\ [][NextRegime]_vars

-----------------------------------------------------------------------------
(* Callers of the momentum signal.                                         *)

\* Month-end prices of two tickers in one month.
MonthlyPriceRows ==
    {<<One, <<2, 1>>>>, <<<<2, 1>>, One>>, <<<<3, 1>>, <<3, 1>>>>,
     <<NaN, <<4, 1>>>>, <<<<4, 1>>, NaN>>}

MonthEnds(n) == Mat([m \in 1..n |-> MonthEnd(m)])

MonthlyPanels(n) == {Frame(MonthEnds(n), Tickers, Mat(rows)) : rows \in [1..n -> MonthlyPriceRows]}

\* mom = compute_momentum_signal(monthly_prices, lookback_months)
ComputeMomentumSignal ==
    /\ pc = "start"
    /\ \E n \in 0..(MaxMonths + 1), lookback_months \in 1..(MaxMonths - 1) :
          \E monthly_prices \in MonthlyPanels(n) :
             /\ call' = [fn |-> "compute_momentum_signal", monthly_prices |-> monthly_prices,
                         lookback_months |-> lookback_months]
             /\ result' = [status |-> "returned",
                           value |-> compute_momentum_signal(monthly_prices, lookback_months)]
    /\ pc' = "called"
    /\ UNCHANGED <<prices, weights, padFill, locals, first, revised, ret>>

InitMomentum ==
    /\ NoFrames
    /\ padFill \in BOOLEAN
    /\ Idle

NextMomentum == ComputeMomentumSignal

SpecMomentum == InitMomentum /\ [][NextMomentum]_vars

-----------------------------------------------------------------------------
(* Callers of the weight builders.                                         *)

\* Regime labels on the month ends of months a..b.
LabelsOn(a, b, values) ==
    {[index |-> Mat([k \in 1..(b - a + 1) |-> MonthEnd(a + k - 1)]), data |-> Mat(labels)] :
        labels \in [1..(b - a + 1) -> values]}

RegimeLabelSeries ==
    UNION {LabelsOn(ab[1], ab[2], {0, 1, 2}) :
              ab \in {x \in (1..MaxMonths) \X (1..MaxMonths) : x[1] <= x[2]}}

\* Daily price of a ticker: flat, a step up (to 2 or to 3) or down at the
\* start of month 2, a step up at the start of month 3, a step up whose first
\* day is missing.
PriceShape(shape, d) ==
    CASE shape = "flat" -> One
      [] shape = "up" -> IF MonthOf(d) < 2 THEN One ELSE <<2, 1>>
      [] shape = "down" -> IF MonthOf(d) < 2 THEN <<2, 1>> ELSE One
      [] shape = "high" -> IF MonthOf(d) < 2 THEN One ELSE <<3, 1>>
      [] shape = "late" -> IF MonthOf(d) < 3 THEN One ELSE <<3, 1>>
      [] shape = "hole" ->
            IF MonthOf(d) < 2 THEN One ELSE IF d = MonthEnd(1) + 1 THEN NaN ELSE <<2, 1>>

\* The shapes of the long and of the short leg; any other ticker steps up.
LegShapes ==
    {<<"up", "down">>, <<"up", "flat">>, <<"down", "up">>, <<"late", "down">>,
     <<"hole", "down">>}

LsPanel(idx, columns, shapes) ==
    Frame(idx, columns,
          Mat([t \in 1..Len(idx) |->
                 Mat([c \in 1..Len(columns) |->
                        PriceShape(IF columns[c] = "XBI" THEN shapes[1]
                                   ELSE IF columns[c] = "XPH" THEN shapes[2] ELSE "up",
                                   idx[t])])]))

MonthStarts(n) == Mat([m \in 1..n |-> MonthEnd(m - 1) + 1])

\* The legs and a third ticker, on every calendar day or on month starts
\* only; and a panel with the two legs alone, in the other order.
LsPanels ==
    {LsPanel(idx, <<"XBI", "XPH", "XLV">>, shapes) :
        idx \in {DateIndex(MaxMonths * DaysPerMonth), MonthStarts(MaxMonths)},
        shapes \in LegShapes}
        \cup {LsPanel(DateIndex(MaxMonths * DaysPerMonth), <<"XPH", "XBI">>, <<"up", "down">>)}

\* dates of the simple mode: every calendar day, month starts only, one day.
LsDates == {DateIndex(MaxMonths * DaysPerMonth), MonthStarts(MaxMonths), DateIndex(1)}

\* Volatilities of the long and the short leg in a table passed by the caller.
VolPairs ==
    {<<<<1, 5>>, <<2, 5>>>>, <<<<1, 5>>, NaN>>, <<Zero, <<1, 5>>>>, <<<<-1, 5>>, <<1, 5>>>>}

VolTable(idx, pair) ==
    Frame(idx, <<"XBI", "XPH">>, Mat([t \in 1..Len(idx) |-> <<VolOf(pair[1]), VolOf(pair[2])>>]))

\* vol_df: left out (estimated over 2 or the default 60 days), a table on the
\* panel's dates, or a table that starts on the panel's last date.
VolOptions(idx) ==
    {[vol_df |-> <<>>, vol_lookback_days |-> n] : n \in {2, 60}}
        \cup {[vol_df |-> <<VolTable(idx, pair)>>, vol_lookback_days |-> 60] : pair \in VolPairs}
        \cup {[vol_df |-> <<VolTable(<<idx[Len(idx)]>>, <<<<1, 5>>, <<2, 5>>>>)>>,
               vol_lookback_days |-> 60]}

\* spread_momentum: left out (computed over 1..MaxMonths-2 months), or a
\* series on the month ends: missing, then above, then at the default threshold;
\* or above it in every month.
SpreadOptions ==
    {[spread_momentum |-> <<>>, spread_mom_lookback_months |-> n] : n \in 1..(MaxMonths - 2)}
        \cup {[spread_momentum |->
                  <<[index |-> MonthEnds(MaxMonths),
                     data |-> Mat([m \in 1..MaxMonths |->
                                     IF kind = "open" THEN <<2, 1>>
                                     ELSE IF m = 1 THEN NaN
                                     ELSE IF m = 2 THEN <<2, 1>> ELSE One])]>>,
               spread_mom_lookback_months |-> 6] : kind \in {"open", "mixed"}}

\* Regime labels of the risk-balanced calls: 0 or 1 in every month, or 1 from
\* the second month on.
GateLabels == LabelsOn(1, MaxMonths, {0, 1}) \cup LabelsOn(2, MaxMonths, {1})

BuilderResult(out) == [status |-> out.status, obj |-> out.obj, value |-> out.value]

\* weights = build_monthly_ls_weights(regime_labels, dates, risk_off_mode=...)
BuildLsSimple ==
    /\ pc = "start"
    /\ \E regime_labels \in RegimeLabelSeries,
          dates \in {<<>>} \cup {<<idx>> : idx \in LsDates},
          extras \in {[vol_df |-> <<>>, spread_momentum |-> <<>>],
                      [vol_df |-> <<VolTable(DateIndex(1), <<<<1, 5>>, <<2, 5>>>>)>>,
                       spread_momentum |-> <<[index |-> MonthEnds(1), data |-> <<<<2, 1>>>>]>>]},
          risk_off_mode \in RiskOffModes \cup {"bogus"} :
          \E out \in {build_monthly_ls_weights(regime_labels, dates, <<>>, extras.vol_df,
                                               extras.spread_momentum, "XBI", "XPH", One, One,
                                               risk_off_mode, 6, 60, padFill)} :
             /\ call' = [fn |-> "build_monthly_ls_weights", mode |-> "simple",
                         regime_labels |-> regime_labels, dates |-> dates, prices |-> <<>>,
                         vol_df |-> extras.vol_df, spread_momentum |-> extras.spread_momentum,
                         long_ticker |-> "XBI", short_ticker |-> "XPH",
                         risk_off_mode |-> risk_off_mode]
             /\ result' = BuilderResult(out)
             /\ locals' = [monthly_df |-> out.monthly_df, daily_weights |-> out.daily_weights,
                           vol_df |-> out.vol_df, spread_momentum |-> out.spread_momentum]
    /\ pc' = "called"
    /\ UNCHANGED <<prices, weights, padFill, first, revised, ret>>

\* weights = build_monthly_ls_weights(regime_labels, prices=prices, ...)
BuildLsRiskBalanced ==
    /\ pc = "start"
    /\ \E p \in LsPanels, regime_labels \in GateLabels, sopt \in SpreadOptions,
          sizing \in {[target_gross_exposure |-> One, spread_mom_threshold |-> One],
                      [target_gross_exposure |-> <<2, 1>>, spread_mom_threshold |-> <<3, 2>>]},
          risk_off_mode \in {"flat", "bogus"} :
          \E vopt \in VolOptions(p.index) :
          \E out \in {build_monthly_ls_weights(
                          regime_labels, <<>>, <<p>>, vopt.vol_df, sopt.spread_momentum,
                          "XBI", "XPH", sizing.target_gross_exposure,
                          sizing.spread_mom_threshold,
                          risk_off_mode, sopt.spread_mom_lookback_months,
                          vopt.vol_lookback_days, padFill)} :
             /\ call' = [fn |-> "build_monthly_ls_weights", mode |-> "risk_balanced",
                         regime_labels |-> regime_labels, dates |-> <<>>, prices |-> <<p>>,
                         vol_df |-> vopt.vol_df,
                         vol_lookback_days |-> vopt.vol_lookback_days,
                         spread_momentum |-> sopt.spread_momentum,
                         spread_mom_lookback_months |-> sopt.spread_mom_lookback_months,
                         long_ticker |-> "XBI", short_ticker |-> "XPH",
                         target_gross_exposure |-> sizing.target_gross_exposure,
                         spread_mom_threshold |-> sizing.spread_mom_threshold,
                         risk_off_mode |-> risk_off_mode]
             /\ result' = BuilderResult(out)
             /\ locals' = [monthly_df |-> out.monthly_df, daily_weights |-> out.daily_weights,
                           vol_df |-> out.vol_df, spread_momentum |-> out.spread_momentum]
    /\ pc' = "called"
    /\ UNCHANGED <<prices, weights, padFill, first, revised, ret>>

\* Panels of the rotation builder: the shapes of XBI, XPH and XLV, and a
\* flat ticker outside the healthcare universe.
RotationShapes ==
    {<<"up", "down", "up">>, <<"up", "high", "up">>, <<"down", "down", "down">>,
     <<"up", "high", "down">>, <<"hole", "late", "flat">>, <<"late", "up", "flat">>}

RotationPanel(idx, shapes) ==
    LET columns == <<"XBI", "XPH", "XLV", "SHY">>
    IN  Frame(idx, columns,
              Mat([t \in 1..Len(idx) |->
                     Mat([c \in 1..Len(columns) |->
                            PriceShape(IF c <= 3 THEN shapes[c] ELSE "flat", idx[t])])]))

\* MaxMonths months of daily prices or of month-start prices, or month-end
\* prices over more than the twelve months the trend filter looks back.
RotationPanels ==
    {RotationPanel(idx, shapes) :
        idx \in {DateIndex(MaxMonths * DaysPerMonth), MonthStarts(MaxMonths),
                 MonthEnds(12 + MaxMonths - 1)},
        shapes \in RotationShapes}

\* defensive_ticker and defensive_on_negative_momentum
DefensiveOptions ==
    {[defensive_ticker |-> <<>>, defensive_on_negative_momentum |-> TRUE],
     [defensive_ticker |-> <<"XLV">>, defensive_on_negative_momentum |-> TRUE],
     [defensive_ticker |-> <<"SHY">>, defensive_on_negative_momentum |-> TRUE],
     [defensive_ticker |-> <<"XLV">>, defensive_on_negative_momentum |-> FALSE]}

\* use_ts_mom_gating and ts_lookback_months
GatingOptions ==
    {[use_ts_mom_gating |-> FALSE, ts_lookback_months |-> 12],
     [use_ts_mom_gating |-> TRUE, ts_lookback_months |-> 2],
     [use_ts_mom_gating |-> TRUE, ts_lookback_months |-> 12]}

\* weights = build_monthly_rotation_weights(prices, ...)
BuildRotation ==
    /\ pc = "start"
    /\ \E p \in RotationPanels, top_k \in {1, 2}, use_12m1m \in BOOLEAN,
          gating \in GatingOptions, use_xlv_trend_filter \in BOOLEAN,
          defensive \in DefensiveOptions, target_vol_annual \in {<<1, 10>>, <<10, 1>>} :
          \E out \in {build_monthly_rotation_weights(
                          p, 1, top_k, target_vol_annual, use_12m1m, gating.use_ts_mom_gating,
                          use_xlv_trend_filter, "XLV", gating.ts_lookback_months, <<3, 2>>,
                          defensive.defensive_ticker, defensive.defensive_on_negative_momentum,
                          padFill)} :
             /\ call' = [fn |-> "build_monthly_rotation_weights", prices |-> <<p>>,
                         lookback_months |-> 1, top_k |-> top_k,
                         target_vol_annual |-> target_vol_annual, use_12m1m |-> use_12m1m,
                         use_ts_mom_gating |-> gating.use_ts_mom_gating,
                         use_xlv_trend_filter |-> use_xlv_trend_filter, xlv_ticker |-> "XLV",
                         ts_lookback_months |-> gating.ts_lookback_months,
                         max_gross_leverage |-> <<3, 2>>,
                         defensive_ticker |-> defensive.defensive_ticker,
                         defensive_on_negative_momentum |->
                             defensive.defensive_on_negative_momentum]
             /\ result' = BuilderResult(out)
             /\ locals' = [monthly_df |-> out.monthly_df, daily_weights |-> out.daily_weights,
                           monthly_prices |-> out.monthly_prices,
                           momentum_scores |-> out.momentum_scores]
    /\ pc' = "called"
    /\ UNCHANGED <<prices, weights, padFill, first, revised, ret>>

InitBuilders ==
    /\ NoFrames
    /\ padFill \in BOOLEAN
    /\ Idle

NextBuilders == BuildLsSimple \/ BuildLsRiskBalanced \/ BuildRotation

SpecBuilders == InitBuilders /\ [][NextBuilders]_vars

-----------------------------------------------------------------------------
(* Calls of the volatility sizing utilities and of the rotation builder     *)
(* with the leverage cap varied.                                            *)

\* The largest number of tickers handed to a sizing utility.
MaxAssets == 2

\* max_gross_leverage: below 1, above 1, zero and negative
LeverageCaps == {Half, <<3, 2>>, Zero, Neg(One)}

\* A volatility on the sizing date: missing, zero, 20% or 40%.
SizingVols == {NaNVol, <<0, Zero>>, VolOf(<<1, 5>>), VolOf(<<2, 5>>)}

\* target_vol_annual
TargetVols == {<<1, 10>>, <<10, 1>>}

\* risk_weights: inverse-volatility weights as the rotation builder passes
\* them (every volatility usable), or equal weights.
RiskWeights(vols) ==
    {Mat([i \in 1..Len(vols) |-> <<1, Len(vols)>>])}
        \cup (IF usable_vols(vols) = 1..Len(vols) /\ Len(vols) > 0
              THEN {inverse_vol_weights(vols, 1..Len(vols))}
              ELSE {})

\* scaled = scale_weights_to_target_vol(risk_weights, current_vols, target, cap)
ScaleWeightsToTargetVol ==
    /\ pc = "start"
    /\ \E n \in 0..MaxAssets, target_vol_annual \in TargetVols,
          max_gross_leverage \in LeverageCaps :
          \E current_vols \in [1..n -> SizingVols] :
             \E risk_weights \in RiskWeights(Mat(current_vols)) :
                /\ call' = [fn |-> "scale_weights_to_target_vol",
                            risk_weights |-> risk_weights, current_vols |-> Mat(current_vols),
                            target_vol_annual |-> target_vol_annual,
                            max_gross_leverage |-> max_gross_leverage]
                /\ result' = [status |-> "returned", obj |-> "new",
                              value |-> scale_weights_to_target_vol(
                                            risk_weights, Mat(current_vols), target_vol_annual,
                                            max_gross_leverage)]
    /\ pc' = "called"
    /\ UNCHANGED <<prices, weights, padFill, locals, first, revised, ret>>

\* weights = build_vol_target_weights(selected_tickers, current_date, vol_df, target)
BuildVolTargetWeights ==
    /\ pc = "start"
    /\ \E n \in 1..MaxAssets, target_vol_annual \in TargetVols \cup {Zero},
          in_index \in BOOLEAN :
          \E current_vols \in [1..n -> SizingVols] :
             /\ call' = [fn |-> "build_vol_target_weights", in_index |-> in_index,
                         current_vols |-> Mat(current_vols),
                         target_vol_annual |-> target_vol_annual]
             /\ result' = [status |-> "returned", obj |-> "new",
                           value |-> build_vol_target_weights(in_index, Mat(current_vols),
                                                              target_vol_annual)]
    /\ pc' = "called"
    /\ UNCHANGED <<prices, weights, padFill, locals, first, revised, ret>>

\* use_ts_mom_gating and ts_lookback_months, with a one-month gate
ShortGatingOptions ==
    {[use_ts_mom_gating |-> FALSE, ts_lookback_months |-> 12],
     [use_ts_mom_gating |-> TRUE, ts_lookback_months |-> 1],
     [use_ts_mom_gating |-> TRUE, ts_lookback_months |-> 2]}

\* weights = build_monthly_rotation_weights(prices, ..., max_gross_leverage=cap)
RotateCapped ==
    /\ pc = "start"
    /\ \E p \in RotationPanels, top_k \in {1, 2}, use_12m1m \in BOOLEAN,
          gating \in ShortGatingOptions, defensive_ticker \in {<<>>, <<"XLV">>},
          target_vol_annual \in TargetVols, max_gross_leverage \in LeverageCaps :
          \E out \in {build_monthly_rotation_weights(
                          p, 1, top_k, target_vol_annual, use_12m1m, gating.use_ts_mom_gating,
                          FALSE, "XLV", gating.ts_lookback_months, max_gross_leverage,
                          defensive_ticker, TRUE, padFill)} :
             /\ call' = [fn |-> "build_monthly_rotation_weights", prices |-> <<p>>,
                         lookback_months |-> 1, top_k |-> top_k,
                         target_vol_annual |-> target_vol_annual, use_12m1m |-> use_12m1m,
                         use_ts_mom_gating |-> gating.use_ts_mom_gating,
                         use_xlv_trend_filter |-> FALSE, xlv_ticker |-> "XLV",
                         ts_lookback_months |-> gating.ts_lookback_months,
                         max_gross_leverage |-> max_gross_leverage,
                         defensive_ticker |-> defensive_ticker,
                         defensive_on_negative_momentum |-> TRUE]
             /\ result' = BuilderResult(out)
             /\ locals' = [monthly_df |-> out.monthly_df, daily_weights |-> out.daily_weights,
                           monthly_prices |-> out.monthly_prices,
                           momentum_scores |-> out.momentum_scores]
    /\ pc' = "called"
    /\ UNCHANGED <<prices, weights, padFill, first, revised, ret>>

InitSizing ==
    /\ NoFrames
    /\ padFill \in BOOLEAN
    /\ Idle

NextSizing == ScaleWeightsToTargetVol \/ BuildVolTargetWeights \/ RotateCapped

SpecSizing == InitSizing /\ [][NextSizing]_vars

-----------------------------------------------------------------------------
(* Calls of the performance metrics.                                        *)

\* A daily return: a loss, nothing, a gain, or missing.
ReturnValues == {Neg(Half), Zero, Half, NaN}

\* Return series over up to MaxDays dates starting at date `from`.
ReturnSeries(from, values) ==
    UNION {{[index |-> Mat([i \in 1..n |-> from + i - 1]), data |-> Mat(xs)] :
               xs \in [1..n -> values]} : n \in 0..MaxDays}

\* risk_free_rate_annual and target_return_annual
AnnualRates == {Zero, <<63, 1>>}

StoreMetric(fn, args, out) ==
    /\ call' = [fn |-> fn, args |-> args]
    /\ result' = out
    /\ pc' = "called"
    /\ UNCHANGED <<prices, weights, padFill, locals, first, revised, ret>>

\* sharpe = compute_sharpe(daily_returns, risk_free_rate_annual)
ComputeSharpe ==
    /\ pc = "start"
    /\ \E daily_returns \in ReturnSeries(1, ReturnValues), rf \in AnnualRates :
          StoreMetric("compute_sharpe", <<daily_returns, rf>>, compute_sharpe(daily_returns, rf))

\* sortino = compute_sortino(daily_returns, risk_free_rate_annual, target_return_annual)
ComputeSortino ==
    /\ pc = "start"
    /\ \E daily_returns \in ReturnSeries(1, ReturnValues), rf \in AnnualRates,
          target \in AnnualRates \cup {<<-126, 1>>} :
          StoreMetric("compute_sortino", <<daily_returns, rf, target>>,
                      compute_sortino(daily_returns, rf, target))

\* calmar = compute_calmar(daily_returns)
ComputeCalmar ==
    /\ pc = "start"
    /\ \E daily_returns \in ReturnSeries(1, ReturnValues) :
          StoreMetric("compute_calmar", <<daily_returns>>, compute_calmar(daily_returns))

\* ir = compute_information_ratio(strategy_returns, benchmark_returns)
ComputeInformationRatio ==
    /\ pc = "start"
    /\ \E a \in ReturnSeries(1, {Zero, Half, NaN}), from \in 1..2 :
          \E b \in ReturnSeries(from, {Zero, Half, NaN}) :
             StoreMetric("compute_information_ratio", <<a, b>>, compute_information_ratio(a, b))

\* corr = compute_correlation(series_a, series_b)
ComputeCorrelation ==
    /\ pc = "start"
    /\ \E a \in ReturnSeries(1, {Zero, Half, NaN}), from \in 1..2 :
          \E b \in ReturnSeries(from, {Zero, Half, NaN}) :
             StoreMetric("compute_correlation", <<a, b>>, compute_correlation(a, b))

InitMetrics ==
    /\ NoFrames
    /\ padFill = FALSE
    /\ Idle

NextMetrics ==
    \/ ComputeSharpe
    \/ ComputeSortino
    \/ ComputeCalmar
    \/ ComputeInformationRatio
    \/ ComputeCorrelation

SpecMetrics == InitMetrics /\ [][NextMetrics]_vars

-----------------------------------------------------------------------------
(* Callers of the parameter sweeps.  The price panel is loaded once and    *)
(* shared by every sweep of a run: it is the variable prices.              *)

\* Daily price of a ticker in the sweeps: a shape of the builders' panels,
\* a price that doubles in every even month and halves in every odd one, or
\* a price that doubles at the start of month 2 and again after a year.
SweepPrice(shape, d) ==
    CASE shape = "wave" -> IF MonthOf(d) % 2 = 1 THEN One ELSE <<2, 1>>
      [] shape = "twice" -> IF MonthOf(d) < 2 THEN One
                            ELSE IF MonthOf(d) <= 13 THEN <<2, 1>> ELSE <<4, 1>>
      [] OTHER -> PriceShape(shape, d)

\* The shapes of XBI, XPH and XLV; SHY is flat.
SweepShapes == {<<"wave", "flat", "wave">>, <<"up", "down", "up">>, <<"flat", "wave", "flat">>}

SweepPanel(idx, shapes) ==
    LET columns == <<"XBI", "XPH", "XLV", "SHY">>
    IN  Frame(idx, columns,
              Mat([t \in 1..Len(idx) |->
                     Mat([c \in 1..Len(columns) |->
                            SweepPrice(IF c <= 3 THEN shapes[c] ELSE "flat", idx[t])])]))

\* MaxMonths months of daily prices, or month-end prices over more than the
\* twelve months the default lookbacks need.
SweepPanels ==
    {SweepPanel(DateIndex(MaxMonths * DaysPerMonth), shapes) : shapes \in SweepShapes}
        \cup {SweepPanel(MonthEnds(12 + MaxMonths - 1), shapes) :
                 shapes \in {<<"up", "down", "up">>, <<"twice", "down", "up">>}}

\* A sweep was called: its grid lists as passed, in the order of the loop,
\* its other arguments, and what it returned.
StoreSweep(fn, lists, args, out) ==
    /\ call' = [fn |-> fn, lists |-> lists, args |-> args]
    /\ result' = out
    /\ pc' = "called"
    /\ UNCHANGED <<prices, weights, padFill, locals, first, revised, ret>>

\* Grid lists of the regime thresholds: none, one or two values, in either
\* order, a value twice.
RateThresholdLists == {<<>>, <<Neg(One), <<20, 1>>>>, <<<<20, 1>>, Neg(One)>>}
VixThresholdLists == {<<<<1000, 1>>>>, <<<<20, 1>>, <<20, 1>>>>}
SpyThresholdLists == {<<Zero>>, <<One, Zero>>}

\* results = sweep_regime_parameters(prices, tnx_yield, spy_prices, vix, ...)
SweepRegimeParameters ==
    /\ pc = "start"
    /\ \E tnx \in MacroShapes, rate_thresholds \in RateThresholdLists,
          vix_thresholds \in VixThresholdLists, spy_ret_thresholds \in SpyThresholdLists,
          transaction_cost_bps \in {<<5000, 1>>} :
          LET tnx_yield == MacroSeries(prices.index, tnx)
              spy_prices == MacroSeries(prices.index, "rising")
              vix == MacroSeries(prices.index, "rising")
          IN  \E out \in {sweep_regime_parameters(prices, tnx_yield, spy_prices, vix,
                                                  rate_thresholds, vix_thresholds,
                                                  spy_ret_thresholds, transaction_cost_bps,
                                                  padFill)} :
                 StoreSweep("sweep_regime_parameters",
                            <<rate_thresholds, vix_thresholds, spy_ret_thresholds>>,
                            [tnx_yield |-> tnx_yield, spy_prices |-> spy_prices, vix |-> vix,
                             transaction_cost_bps |-> transaction_cost_bps],
                            out)

\* results = sweep_momentum_parameters(prices, lookbacks, top_ks, target_vols, ...)
\* The target volatilities are high enough for the leverage cap to bind on
\* every sized month: the capped weights are rational.
SweepMomentumParameters ==
    /\ pc = "start"
    /\ \E lookbacks \in {<<1>>, <<2, 1>>}, top_ks \in {<<>>, <<1>>, <<2, 1>>},
          target_vols \in {<<<<200, 1>>>>, <<<<100, 1>>, <<100, 1>>>>},
          transaction_cost_bps \in CostBps :
          \E out \in {sweep_momentum_parameters(prices, lookbacks, top_ks, target_vols,
                                                transaction_cost_bps, padFill)} :
             StoreSweep("sweep_momentum_parameters", <<lookbacks, top_ks, target_vols>>,
                        [transaction_cost_bps |-> transaction_cost_bps], out)

\* The eight grid lists of a rotation sweep.
RotationGrids ==
    {<<lookbacks, top_ks, use_ts_flags, <<FALSE>>, use_xlv_filters, <<1>>, <<<<100, 1>>>>,
       max_gross_list>> :
        lookbacks \in {<<1>>, <<2, 1>>}, top_ks \in {<<1, 2>>},
        use_ts_flags \in {<<FALSE>>, <<TRUE, FALSE>>}, use_xlv_filters \in {<<FALSE>>},
        max_gross_list \in {<<Half>>, <<One, Half>>}}
        \cup {<<<<1>>, <<2>>, <<TRUE>>, <<TRUE, FALSE>>, <<TRUE, FALSE>>, <<12, 1>>,
                <<<<200, 1>>, <<100, 1>>>>, <<<<3, 2>>>>>>,
              <<<<1>>, <<2>>, <<TRUE>>, <<>>, <<TRUE, FALSE>>, <<12, 1>>,
                <<<<200, 1>>, <<100, 1>>>>, <<<<3, 2>>>>>>}

\* The date the returns are split at: inside the panel, or after it.
SplitDates == {MonthEnd(2), MonthEnd(12 + MaxMonths)}

\* results = sweep_rotation_parameters(prices, lookbacks, top_ks, ...)
SweepRotationParameters ==
    /\ pc = "start"
    /\ \E lists \in RotationGrids, split_date \in SplitDates :
          \E out \in {sweep_rotation_parameters(prices, lists[1], lists[2], lists[3], lists[4],
                                                lists[5], lists[6], lists[7], lists[8],
                                                <<5000, 1>>, split_date, padFill)} :
             StoreSweep("sweep_rotation_parameters", lists,
                        [transaction_cost_bps |-> <<5000, 1>>, split_date |-> split_date], out)

\* Regime labels on the month ends of the panel: risk-on in every month, or
\* in every other month.
SweepLabels(idx) ==
    LET ends == ResampleIndex(idx)
    IN  {[index |-> ends, data |-> Mat([m \in 1..Len(ends) |-> IF every \/ m % 2 = 1 THEN 1 ELSE 0])] :
            every \in BOOLEAN}

\* The optional threshold lists of a regime long/short sweep: left out,
\* empty, or one or two values.
OptionalLists == {<<>>, << <<>> >>, <<<<Neg(One)>>>>, <<<<<<20, 1>>, Neg(One)>>>>}

\* results = sweep_regime_ls_parameters(prices, vol_df, regime_labels,
\*               spread_momentum, spread_mom_thresholds, target_gross_list, ...)
SweepRegimeLsParameters ==
    /\ pc = "start"
    /\ \E regime_labels \in SweepLabels(prices.index),
          spread_mom_thresholds \in {<<One, <<3, 1>>>>},
          target_gross_list \in {<<>>, <<One>>, <<<<2, 1>>, One>>},
          with_features \in BOOLEAN,
          rate_thresholds \in OptionalLists,
          vix_thresholds \in {<<>>, <<<<<<20, 1>>>>>>},
          spy_ret_thresholds \in {<<>>},
          split_date \in {MonthEnd(2)} :
          LET vol_df == VolTable(prices.index, <<<<1, 5>>, <<2, 5>>>>)
              ends == ResampleIndex(prices.index)
              spread_momentum == [index |-> ends, data |-> Mat([m \in 1..Len(ends) |-> <<2, 1>>])]
              macro == MacroSeries(prices.index, "rising")
              monthly_features ==
                  IF with_features
                  THEN <<compute_monthly_features(macro, macro, macro, 1, 1, 1, padFill).value>>
                  ELSE <<>>
          IN  \E out \in {sweep_regime_ls_parameters(
                              prices, vol_df, regime_labels, spread_momentum,
                              spread_mom_thresholds, target_gross_list, monthly_features,
                              rate_thresholds, vix_thresholds, spy_ret_thresholds, <<5000, 1>>,
                              split_date, padFill)} :
                 StoreSweep("sweep_regime_ls_parameters",
                            <<spread_mom_thresholds, target_gross_list, rate_thresholds,
                              vix_thresholds, spy_ret_thresholds>>,
                            [vol_df |-> vol_df, regime_labels |-> regime_labels,
                             spread_momentum |-> spread_momentum,
                             monthly_features |-> monthly_features,
                             transaction_cost_bps |-> <<5000, 1>>, split_date |-> split_date],
                            out)

InitSweeps ==
    /\ prices \in SweepPanels
    /\ weights = EmptyFrame
    /\ padFill = FALSE
    /\ Idle

NextSweeps ==
    \/ SweepRegimeParameters
    \/ SweepMomentumParameters
    \/ SweepRotationParameters
    \/ SweepRegimeLsParameters

SpecSweeps == InitSweeps /\ [][NextSweeps]_vars


-----------------------------------------------------------------------------
(* Vocabulary of the claims, stated on the caller's inputs and the result. *)

Returned == pc = "called" /\ result.status = "returned"

Aligned == weights.index = prices.index /\ weights.columns = prices.columns

Days == 1..NRows(prices)
Cols == 1..Len(Tickers)

\* The sum of f[1..k]
RECURSIVE Sigma(_, _)
Sigma(f, k) == IF k = 0 THEN Zero ELSE Add(Sigma(f, k - 1), f[k])

SumCols(f) == Sigma(f, Len(Tickers))

MaxQ(x, y) == IF Less(x, y) THEN y ELSE x

\* The caller's target weight, a missing one read as 0
TargetWeight(t, c) == IF IsNaN(weights.data[t][c]) THEN Zero ELSE weights.data[t][c]

\* Both closes of every asset are present at t-1 and t
HasCloses(t) ==
    t > 1 /\ \A c \in Cols : ~IsNaN(prices.data[t][c]) /\ ~IsNaN(prices.data[t - 1][c])

\* The simple return from close t-1 to close t
CloseToClose(t, c) == Sub(Div(prices.data[t][c], prices.data[t - 1][c]), One)

Gross(t) == locals.portfolio_returns.data[t]
Lagged(t, c) == result.weights.data[t][c]
Daily(t) == result.daily_returns.data[t]
Equity(t) == result.equity_curve.data[t]

-----------------------------------------------------------------------------
\* C1: each day's gross return is earned with the previous day's target
\* weight: result.weights[t] is the NaN-filled weights[t-1] for t after the
\* first, 0 on the first day, and the gross return of day t is the sum over
\* assets of result.weights[t] times the close-to-close simple return (0 on
\* the first day).  The return of a day with a missing close is not fixed
\* by the claim and is left to C10.
C1_LaggedWeightsEarnGross ==
    Returned =>
        \A t \in Days :
            /\ \A c \in Cols : Lagged(t, c) = IF t = 1 THEN Zero ELSE TargetWeight(t - 1, c)
            /\ t = 1 => Gross(t) = Zero
            /\ HasCloses(t) =>
                 Gross(t) = SumCols([c \in Cols |-> Mul(Lagged(t, c), CloseToClose(t, c))])

\* A day whose gross return is not 0 and whose own target differs from the lagged one.
C1_Witness ==
    /\ Returned
    /\ \E t \in Days :
          /\ HasCloses(t)
          /\ Gross(t) # Zero
          /\ \E c \in Cols : Lagged(t, c) # TargetWeight(t, c)

\* The second run, on the schedule withdrawn from date `revised` on.
Revised == pc = "revised" /\ result.status = "returned"

\* The return of day t of a run before the transaction cost is taken off.
BeforeTradingCost(res, t) ==
    Add(res.daily_returns.data[t],
        Mul(Div(call.transaction_cost_bps, <<10000, 1>>), res.turnover.data[t]))

\* C2 (as stated): two schedules that agree on every day before t give the
\* same daily_returns[t], whatever the cost arguments.
C2_NoLookAhead ==
    Revised => result.daily_returns.data[revised] = first.result.daily_returns.data[revised]

\* C2 (amended): two schedules that agree on every day before t give the
\* same lagged weights and gross return on day t and the same return before
\* the transaction cost, hence the same daily_returns[t] when
\* transaction_cost_bps = 0; the transaction cost of day t uses the weight
\* set at day t, so daily_returns[s] is the same for the days s on which
\* the schedules agree up to and including s.
C2_NoLookAheadBeforeTradingCost ==
    Revised =>
        /\ \A s \in 1..(revised - 1) :
              result.daily_returns.data[s] = first.result.daily_returns.data[s]
        /\ result.weights.data[revised] = first.result.weights.data[revised]
        /\ locals.portfolio_returns.data[revised] = first.locals.portfolio_returns.data[revised]
        /\ BeforeTradingCost(result, revised) = BeforeTradingCost(first.result, revised)
        /\ call.transaction_cost_bps = Zero =>
              result.daily_returns.data[revised] = first.result.daily_returns.data[revised]

\* The withdrawn targets changed the trade of day t, the day earned a
\* return, and borrow and cash rates are charged but no transaction cost.
C2_Witness ==
    /\ Revised
    /\ revised > 1
    /\ call.transaction_cost_bps = Zero
    /\ call.borrow_cost_annual # Zero
    /\ call.cash_rate_annual # Zero
    /\ result.turnover.data[revised] # first.result.turnover.data[revised]
    /\ first.result.daily_returns.data[revised] # Zero
    /\ first.locals.portfolio_returns.data[revised] # Zero

\* C3: turnover on day t is half the sum over assets of |w[t] - w[t-1]| on
\* the unlagged, NaN-filled target weights, and 0 on the first day; one asset
\* flipping from +1 to -1 gives 1, an unchanged row gives 0.
C3_TurnoverHalfL1 ==
    Returned =>
        \A t \in Days :
            /\ result.turnover.data[t] =
                 IF t = 1 THEN Zero
                 ELSE Mul(Half, SumCols([c \in Cols |->
                          AbsQ(Sub(TargetWeight(t, c), TargetWeight(t - 1, c)))]))
            /\ (t > 1 /\ TargetWeight(t - 1, 1) = One /\ TargetWeight(t, 1) = Neg(One)
                  /\ TargetWeight(t, 2) = TargetWeight(t - 1, 2))
                 => result.turnover.data[t] = One
            /\ (t > 1 /\ \A c \in Cols : TargetWeight(t, c) = TargetWeight(t - 1, c))
                 => result.turnover.data[t] = Zero

\* Asset A flips from +1 to -1 while B is held, then the row is held.
C3_Witness ==
    /\ Returned
    /\ NRows(prices) >= 3
    /\ TargetWeight(1, 1) = One /\ TargetWeight(2, 1) = Neg(One)
    /\ TargetWeight(2, 2) = TargetWeight(1, 2)
    /\ \A c \in Cols : TargetWeight(3, c) = TargetWeight(2, c)
    /\ result.turnover.data[2] = One
    /\ result.turnover.data[3] = Zero

ShortNotional(t) ==
    SumCols([c \in Cols |-> IF Less(Lagged(t, c), Zero) THEN AbsQ(Lagged(t, c)) ELSE Zero])

NetExposure(t) == SumCols([c \in Cols |-> Lagged(t, c)])

AllCostsZero ==
    /\ call.transaction_cost_bps = Zero
    /\ call.borrow_cost_annual = Zero
    /\ call.cash_rate_annual = Zero

\* C4: for t after the first, daily_returns[t] = gross[t]
\*   - turnover[t] * transaction_cost_bps / 10000
\*   - (borrow_cost_annual / 252) * S[t] + (cash_rate_annual / 252) * max(0, 1 - N[t]),
\* S[t] the short notional and N[t] the net exposure of the lagged weights;
\* with the three cost parameters 0 the net return is the gross return.
C4_NetOfCosts ==
    Returned =>
        \A t \in Days \ {1} :
            /\ Daily(t) =
                 Add(Sub(Sub(Gross(t),
                             Mul(result.turnover.data[t],
                                 Div(call.transaction_cost_bps, <<10000, 1>>))),
                         Mul(Div(call.borrow_cost_annual, <<252, 1>>), ShortNotional(t))),
                     Mul(Div(call.cash_rate_annual, <<252, 1>>),
                         MaxQ(Zero, Sub(One, NetExposure(t)))))
            /\ AllCostsZero => Daily(t) = Gross(t)

\* All three costs charged on a day with a short leg, a trade, and a day
\* whose net exposure is above 1 (no cash credit).
C4_Witness ==
    /\ Returned
    /\ call.transaction_cost_bps # Zero
    /\ call.borrow_cost_annual # Zero
    /\ call.cash_rate_annual # Zero
    /\ \E t \in Days \ {1} : Less(Zero, ShortNotional(t)) /\ Less(Zero, result.turnover.data[t])
    /\ \E t \in Days \ {1} : Less(One, NetExposure(t))

\* C5: for a non-empty input and any cost parameters, daily_returns on the
\* first date is exactly 0.
C5_FirstDayZero ==
    (pc = "called" /\ Aligned /\ NRows(prices) > 0) =>
        /\ result.status = "returned"
        /\ Daily(1) = Zero

\* A positive cash rate, which would credit the uninvested first day.
C5_Witness ==
    /\ Returned
    /\ call.cash_rate_annual # Zero
    /\ call.transaction_cost_bps # Zero
    /\ Daily(1) = Zero

\* C6: for every input that passes validation, a panel with zero rows
\* included, the call returns an equity curve with equity_curve[0] = 1 and
\* equity_curve[t] = equity_curve[t-1] * (1 + daily_returns[t]) for t > 0.
C6_EquityCurveForAnyInput ==
    (pc = "called" /\ Aligned) =>
        /\ result.status = "returned"
        /\ \A t \in Days :
              Equity(t) = IF t = 1 THEN One ELSE Mul(Equity(t - 1), Add(One, Daily(t)))

\* C7: the call raises ValueError, and returns no result, whenever the
\* schedule's date index differs from the panel's or its ticker columns differ
\* in membership or order; a result is computed only when both are identical.
C7_MisalignmentRaises ==
    pc = "called" =>
        /\ ~Aligned => result.status = "ValueError"
        /\ result.status = "ValueError" => ~Aligned
        /\ result.status = "returned" => Aligned

\* The same tickers in another order, on the same dates.
C7_Witness ==
    /\ pc = "called"
    /\ NRows(prices) > 0
    /\ weights.index = prices.index
    /\ weights.columns = <<"B", "A">>
    /\ result.status = "ValueError"

\* C8: no step changes the caller's price panel or weight schedule: neither
\* a core operation, nor a later write to the table it returned (which is a
\* copy distinct from the caller's).
C8_CallerTablesUntouched == [][prices' = prices /\ weights' = weights]_vars

\* C10: daily_returns has no missing value on any date; a missing weight
\* counts as weight 0 (the schedule with 0 written in gives the same result)
\* and an undefined asset return counts as return 0.
C10_NoMissingReturn ==
    Returned =>
        /\ \A t \in Days : ~IsNaN(Daily(t))
        /\ result = run_backtest(prices, FillNa(weights, Zero), call.transaction_cost_bps,
                                 call.borrow_cost_annual, call.cash_rate_annual, padFill)
        /\ LET pct == PctChange(prices, padFill)
           IN  \A t \in Days :
                  Gross(t) = SumCols([c \in Cols |->
                      Mul(Lagged(t, c),
                          IF IsNaN(pct.data[t][c]) THEN Zero ELSE pct.data[t][c])])

\* A missing weight is followed by a trade, and a close is missing, with costs on.
C10_Witness ==
    /\ Returned
    /\ call.transaction_cost_bps # Zero
    /\ \E t \in Days \ {1} : \E c \in Cols :
          IsNaN(weights.data[t][c]) /\ ~IsNaN(weights.data[t - 1][c])
    /\ \E t \in Days \ {1} : \E c \in Cols : IsNaN(prices.data[t][c]) /\ Lagged(t, c) # Zero

\* A feature value is present and on the stated side of a threshold.
Present(x) == x # NaN
AtMost(x, y) == x[1] * y[2] <= y[1] * x[2]

RegimeCalled == pc = "called" /\ call.fn = "classify_regime"

\* C11: a month is labelled 1 if and only if its rate change is present and
\* <= rate_threshold, its price return is present and >= spy_ret_threshold
\* and its vol-index mean is present and <= vix_threshold; every other month
\* is labelled 0; the call does not raise whatever values are missing; the
\* output has one label, 0 or 1, per feature row.
C11_RiskOnIffAllThree ==
    (RegimeCalled /\ call.layout.resolves) =>
        /\ result.status = "returned"
        /\ result.value.index = call.monthly_features.index
        /\ Len(result.value.data) = Len(call.rows)
        /\ \A t \in 1..Len(call.rows) :
              LET rate == call.rows[t][1]
                  spy == call.rows[t][2]
                  vix == call.rows[t][3]
                  on == /\ Present(rate) /\ AtMost(rate, call.thresholds.rate_threshold)
                        /\ Present(spy) /\ AtMost(call.thresholds.spy_ret_threshold, spy)
                        /\ Present(vix) /\ AtMost(vix, call.thresholds.vix_threshold)
              IN  /\ result.value.data[t] \in {0, 1}
                  /\ result.value.data[t] = 1 <=> on

\* A month with the three features exactly at the thresholds is labelled 1
\* and a month with a missing feature 0, in a table with a decoy column.
C11_Witness ==
    /\ RegimeCalled
    /\ result.status = "returned"
    /\ Len(call.rows) = 2
    /\ "decoy" \in {call.layout.roles[c] : c \in 1..Len(call.layout.roles)}
    /\ call.rows[1] = <<Zero, Zero, <<25, 1>>>> /\ result.value.data[1] = 1
    /\ \E i \in 1..3 : call.rows[2][i] = NaN
    /\ result.value.data[2] = 0

FeaturesCalled == pc = "called" /\ call.fn = "compute_monthly_features"

\* C12: compute_monthly_features raises ValueError and returns no table when
\* any of the three windows is zero or negative; with the three positive it
\* returns a table whose columns are one rate change, one price return and
\* one vol-index mean, named after the windows.
C12_WindowsValidated ==
    FeaturesCalled =>
        IF call.lookback_months_rate <= 0 \/ call.lookback_months_spy <= 0
              \/ call.vix_window_months <= 0
        THEN result.status = "ValueError" /\ result.value = EmptyFrame
        ELSE /\ result.status = "returned"
             /\ result.value.columns = <<<<"delta_rate_", call.lookback_months_rate>>,
                                          <<"spy_return_", call.lookback_months_spy>>,
                                          <<"vix_mean_", call.vix_window_months>>>>
             /\ \A t \in 1..Len(result.value.data) : Len(result.value.data[t]) = 3
             /\ Len(result.value.index) = Len(result.value.data)

\* A zero window alone, on series of several months, is rejected.
C12_Witness ==
    /\ FeaturesCalled
    /\ Len(call.index) = MaxMonths * DaysPerMonth
    /\ call.lookback_months_rate = 1 /\ call.lookback_months_spy = 0
    /\ call.vix_window_months = 1
    /\ result.status = "ValueError"

MomentumCalled == pc = "called" /\ call.fn = "compute_momentum_signal"

\* C13: for lookback L >= 1 the momentum at month t is
\* price[t-1] / price[t-1-L] - 1, computed from months before t only, and is
\* missing in each of the first L+1 months.
C13_MomentumShiftLaw ==
    MomentumCalled =>
        LET price == call.monthly_prices.data
            L == call.lookback_months
            mom == result.value
        IN  /\ mom.index = call.monthly_prices.index
            /\ mom.columns = call.monthly_prices.columns
            /\ \A t \in 1..Len(price), c \in 1..Len(Tickers) :
                  /\ t <= L + 1 => mom.data[t][c] = NaN
                  /\ t > L + 1 =>
                        mom.data[t][c] =
                            IF price[t - 1][c] = NaN \/ price[t - 1 - L][c] = NaN THEN NaN
                            ELSE Q(price[t - 1][c][1] * price[t - 1 - L][c][2]
                                     - price[t - 1 - L][c][1] * price[t - 1][c][2],
                                   price[t - 1 - L][c][1] * price[t - 1][c][2])

\* Prices 1, 2, 3 in three months and lookback 1: the third month's signal is
\* the second month's return 2/1 - 1 = 1, although the third month returned
\* 3/2 - 1; the first two months have no signal.
C13_Witness ==
    /\ MomentumCalled
    /\ call.lookback_months = 1
    /\ Len(call.monthly_prices.data) = 3
    /\ call.monthly_prices.data[1][1] = One
    /\ call.monthly_prices.data[2][1] = <<2, 1>>
    /\ call.monthly_prices.data[3][1] = <<3, 1>>
    /\ result.value.data[1][1] = NaN /\ result.value.data[2][1] = NaN
    /\ result.value.data[3][1] = One

LsCalled == pc = "called" /\ call.fn = "build_monthly_ls_weights"
LsSimple == LsCalled /\ call.mode = "simple"
LsRiskBalanced == LsCalled /\ call.mode = "risk_balanced"

\* The monthly weight of a ticker in the m-th rebalance month.
Monthly(m, ticker) == locals.monthly_df.data[m][ColumnOf(locals.monthly_df.columns, ticker)]

\* C14: in simple mode a month labelled 1 gets +1 on the long leg and -1 on
\* the short leg, a month with any other label (0, 0) for "flat", (0, +1) for
\* "long_pharma" and (-1, +1) for "reverse"; a volatility table or a spread
\* momentum passed along changes nothing.
C14_SimpleModeWeights ==
    (LsSimple /\ result.status = "returned") =>
        /\ locals.monthly_df.index = call.regime_labels.index
        /\ \A m \in 1..Len(call.regime_labels.index) :
              LET long == Monthly(m, call.long_ticker)
                  short == Monthly(m, call.short_ticker)
              IN  IF call.regime_labels.data[m] = 1 THEN long = One /\ short = <<-1, 1>>
                  ELSE CASE call.risk_off_mode = "flat" -> long = Zero /\ short = Zero
                         [] call.risk_off_mode = "long_pharma" -> long = Zero /\ short = One
                         [] call.risk_off_mode = "reverse" -> long = <<-1, 1>> /\ short = One
                         [] OTHER -> FALSE
        /\ result.value =
              build_monthly_ls_weights(call.regime_labels, call.dates, <<>>, <<>>, <<>>,
                                       call.long_ticker, call.short_ticker, One, One,
                                       call.risk_off_mode, 6, 60, padFill).value

\* "long_pharma" with a risk-on month followed by a risk-off month, and a
\* volatility table and a spread momentum passed along.
C14_Witness ==
    /\ LsSimple
    /\ result.status = "returned"
    /\ call.risk_off_mode = "long_pharma"
    /\ call.vol_df # <<>> /\ call.spread_momentum # <<>>
    /\ call.regime_labels.data = <<1, 0>>
    /\ Monthly(1, "XBI") = One /\ Monthly(1, "XPH") = <<-1, 1>>
    /\ Monthly(2, "XBI") = Zero /\ Monthly(2, "XPH") = One
    /\ Len(result.value.index) > 0

\* C15: build_monthly_ls_weights raises and returns no weights whenever
\* risk_off_mode is none of "flat", "long_pharma", "reverse", in simple mode
\* (dates given) and in risk-balanced mode (prices given).
C15_UnknownModeRaises ==
    (LsCalled /\ call.risk_off_mode \notin {"flat", "long_pharma", "reverse"}) =>
        result.status = "ValueError" /\ result.value = EmptyFrame

\* The gate of the m-th rebalance month, from the builder's inputs: the
\* month's label and spread momentum, and the threshold.
LabelOf(m) ==
    call.regime_labels.data[ColumnOf(call.regime_labels.index, locals.monthly_df.index[m])]
SpreadOf(m) ==
    locals.spread_momentum.data[ColumnOf(locals.spread_momentum.index,
                                         locals.monthly_df.index[m])]
GateOpen(m) ==
    /\ LabelOf(m) = 1
    /\ SpreadOf(m) # NaN
    /\ SpreadOf(m)[1] * call.spread_mom_threshold[2] > call.spread_mom_threshold[1] * SpreadOf(m)[2]

\* The volatility of a leg the m-th rebalance month is sized with: that of
\* the latest row of the table at or before the month end, missing if the
\* table has no such row or no such ticker.
VolOfLeg(m, ticker) ==
    LET at == {i \in 1..Len(locals.vol_df.index) :
                  locals.vol_df.index[i] <= locals.monthly_df.index[m]}
        col == ColumnOf(locals.vol_df.columns, ticker)
    IN  IF at = {} \/ col = 0 THEN NaNVol
        ELSE locals.vol_df.data[CHOOSE i \in at : \A j \in at : j <= i][col]

VolPositive(v) == v[2] # NaN /\ v[1] = 1

\* C16: in risk-balanced mode the call returns, and a rebalance month has
\* both legs at 0 whenever its label is not 1, or its spread momentum is
\* missing or not above the threshold, or a leg's volatility is missing or
\* <= 0, whatever risk_off_mode is.
C16_FlatUnlessGateAndVols ==
    LsRiskBalanced =>
        /\ result.status = "returned"
        /\ \A m \in 1..Len(locals.monthly_df.index) :
              (~GateOpen(m) \/ ~VolPositive(VolOfLeg(m, call.long_ticker))
                  \/ ~VolPositive(VolOfLeg(m, call.short_ticker)))
                 => Monthly(m, call.long_ticker) = Zero /\ Monthly(m, call.short_ticker) = Zero

\* C17: in risk-balanced mode, in a month whose gate is open and whose two
\* volatilities are positive, the long weight is positive, the short weight
\* negative, |w_long| + |w_short| = target_gross_exposure and
\* |w_long| * vol_long = |w_short| * vol_short (compared as squares).
C17_InverseVolSizing ==
    (LsRiskBalanced /\ result.status = "returned") =>
        \A m \in 1..Len(locals.monthly_df.index) :
           (GateOpen(m) /\ VolPositive(VolOfLeg(m, call.long_ticker))
               /\ VolPositive(VolOfLeg(m, call.short_ticker)))
              => LET wl == Monthly(m, call.long_ticker)
                     ws == Monthly(m, call.short_ticker)
                 IN  /\ wl[1] > 0 /\ ws[1] < 0
                     /\ Sub(wl, ws) = call.target_gross_exposure
                     /\ Mul(Mul(wl, wl), VolOfLeg(m, call.long_ticker)[2])
                           = Mul(Mul(ws, ws), VolOfLeg(m, call.short_ticker)[2])

\* Volatilities estimated from the prices (long leg stepping 1 -> 3, short
\* leg 2 -> 1, so the long leg is four times as volatile): the third month is
\* sized 1/5 long and 4/5 short of a target of 1.
C17_Witness ==
    /\ LsRiskBalanced
    /\ result.status = "returned"
    /\ call.vol_df = <<>> /\ call.spread_momentum = <<>>
    /\ call.target_gross_exposure = One
    /\ Len(locals.monthly_df.index) = 3
    /\ GateOpen(3)
    /\ Monthly(3, "XBI") = <<1, 5>> /\ Monthly(3, "XPH") = <<-4, 5>>

RotationCalled == pc = "called" /\ call.fn = "build_monthly_rotation_weights"
BuilderReturned == (LsCalled \/ RotationCalled) /\ result.status = "returned"

\* The weight 0 as the builder called holds it.
NoWeight == IF RotationCalled THEN RtZero ELSE Zero

\* The daily dates the builder was asked for.
DailyDates == IF call.prices # <<>> THEN call.prices[1].index ELSE call.dates[1]

\* The tickers the strategy may hold: the two legs, or the healthcare
\* universe and the defensive ticker.
MayHold(ticker) ==
    IF RotationCalled
    THEN (\E i \in 1..Len(HcUniverse) : HcUniverse[i] = ticker)
            \/ call.defensive_ticker = <<ticker>>
    ELSE ticker \in {call.long_ticker, call.short_ticker}

\* C18: in both long/short modes and in the rotation builder before its final
\* cap, the daily weight of every date d and ticker is the monthly weight of
\* the latest rebalance date <= d, and 0 when there is none (never the weight
\* of a later rebalance date); a ticker the strategy does not hold is 0 on
\* every date.
C18_ForwardFillLaw ==
    BuilderReturned =>
        LET daily == locals.daily_weights
            monthly == locals.monthly_df
        IN  /\ daily.index = DailyDates
            /\ \A t \in 1..Len(daily.index), c \in 1..Len(daily.columns) :
                  LET before == {m \in 1..Len(monthly.index) : monthly.index[m] <= daily.index[t]}
                      col == ColumnOf(monthly.columns, daily.columns[c])
                  IN  /\ before = {} => daily.data[t][c] = NoWeight
                      /\ before # {} =>
                            \E m \in before :
                               /\ \A k \in before : k <= m
                               /\ daily.data[t][c] =
                                     IF col = 0 THEN NoWeight ELSE monthly.data[m][col]
                      /\ ~MayHold(daily.columns[c]) => daily.data[t][c] = NoWeight

\* Labels 1 then 0 on the ends of months 1 and 2 in "reverse" mode, on every
\* calendar day: nothing before the first month end, (+1, -1) from it until
\* the day before the second, (-1, +1) from the second on.
C18_Witness ==
    /\ LsSimple
    /\ result.status = "returned"
    /\ call.risk_off_mode = "reverse"
    /\ call.regime_labels.data = <<1, 0>>
    /\ call.regime_labels.index = <<MonthEnd(1), MonthEnd(2)>>
    /\ call.dates = <<DateIndex(MaxMonths * DaysPerMonth)>>
    /\ result.value.data[1] = <<Zero, Zero>>
    /\ result.value.data[MonthEnd(2) - 1] = <<One, <<-1, 1>>>>
    /\ result.value.data[MonthEnd(2)] = <<<<-1, 1>>, One>>

\* The benchmark's trailing 12-month return at rebalance month m is defined
\* and <= 0: the month-end price 12 months earlier and the current one are
\* present and the current one is not higher.
TrendNotPositive(m) ==
    LET mp == locals.monthly_prices
        xlv == ColumnOf(mp.columns, call.xlv_ticker)
    IN  /\ xlv # 0 /\ m > 12
        /\ mp.data[m][xlv] # NaN /\ mp.data[m - 12][xlv] # NaN
        /\ mp.data[m][xlv][1] * mp.data[m - 12][xlv][2]
              <= mp.data[m - 12][xlv][1] * mp.data[m][xlv][2]

AllCash(m) == \A c \in 1..Len(locals.monthly_df.columns) : locals.monthly_df.data[m][c] = RtZero

\* Some asset has a positive momentum score in month m.
SomeScorePositive(m) ==
    \E c \in 1..Len(locals.momentum_scores.columns) :
       locals.momentum_scores.data[m][c] # NaN /\ locals.momentum_scores.data[m][c][1] > 0

\* C19: with use_xlv_trend_filter on and the benchmark in the panel, a
\* rebalance month whose benchmark 12-month return is defined and <= 0 has
\* weight 0 on every asset, whatever the scores, the gating and the
\* defensive ticker.
C19_TrendFilterForcesCash ==
    (RotationCalled /\ call.use_xlv_trend_filter) =>
        /\ result.status = "returned"
        /\ \A m \in 1..Len(locals.monthly_df.index) : TrendNotPositive(m) => AllCash(m)

\* A flat benchmark (12-month return exactly 0) in month 13, an asset with a
\* positive score and a defensive ticker configured: the month is in cash.
C19_Witness ==
    /\ RotationCalled
    /\ call.use_xlv_trend_filter
    /\ call.defensive_ticker = <<"XLV">> /\ call.defensive_on_negative_momentum
    /\ ~call.use_ts_mom_gating
    /\ Len(locals.monthly_df.index) >= 13
    /\ locals.monthly_prices.data[13][3] = locals.monthly_prices.data[1][3]
    /\ TrendNotPositive(13)
    /\ SomeScorePositive(13)
    /\ AllCash(13)

\* The defensive allocation is made: the flag is on and a ticker is given.
DefensiveConfigured == call.defensive_on_negative_momentum /\ call.defensive_ticker # <<>>

\* C20: in a rebalance month where the trend filter does not force cash and
\* every asset's momentum score is <= 0 or missing (all of them missing
\* included), the monthly weights are 1.0 on the defensive ticker and 0
\* elsewhere when a defensive ticker is configured, and 0 everywhere when
\* none is.
C20_DefensiveOrCash ==
    RotationCalled =>
        \A m \in 1..Len(locals.monthly_df.index) :
           (~(call.use_xlv_trend_filter /\ TrendNotPositive(m)) /\ ~SomeScorePositive(m)) =>
              \A c \in 1..Len(locals.monthly_df.columns) :
                 locals.monthly_df.data[m][c] =
                    IF DefensiveConfigured /\ call.defensive_ticker = <<locals.monthly_df.columns[c]>>
                    THEN <<1, One>>
                    ELSE RtZero

\* The momentum score of ticker column c of the panel in rebalance month m
\* (NaN for a ticker outside the scored universe).
ScoreOf(m, c) ==
    LET k == ColumnOf(locals.momentum_scores.columns, locals.monthly_df.columns[c])
    IN  IF k = 0 THEN NaN ELSE locals.momentum_scores.data[m][k]

\* The own trailing return price[m] / price[m - ts_lookback_months] - 1 of
\* column c is defined and strictly positive.
TrailingReturnPositive(m, c) ==
    LET mp == locals.monthly_prices
        back == m - call.ts_lookback_months
    IN  /\ back >= 1
        /\ mp.data[m][c] # NaN /\ mp.data[back][c] # NaN
        /\ Less(Zero, Sub(Div(mp.data[m][c], mp.data[back][c]), One))

\* Column c may be ranked in month m: it has a score and, with the gate on,
\* a positive trailing return.
Eligible(m, c) ==
    /\ ScoreOf(m, c) # NaN
    /\ call.use_ts_mom_gating => TrailingReturnPositive(m, c)

\* Fewer than top_k eligible assets score strictly higher than column c.
AmongTopK(m, c) ==
    Cardinality({d \in 1..Len(locals.monthly_df.columns) :
                    Eligible(m, d) /\ Less(ScoreOf(m, c), ScoreOf(m, d))}) < call.top_k

\* Column c holds a weight in month m that is not the defensive fallback.
SelectedForSizing(m, c) == locals.monthly_df.data[m][c] # RtZero /\ SomeScorePositive(m)

RebalanceMonths == 1..Len(locals.monthly_df.index)
PanelColumns == 1..Len(locals.monthly_df.columns)

\* C21: an asset selected for sizing in a rebalance month has a strictly
\* positive momentum score that month and is among the top_k highest-scoring
\* eligible assets; an asset with score <= 0 is never selected.
C21_SelectedScorePositive ==
    RotationCalled =>
        \A m \in RebalanceMonths : \A c \in PanelColumns :
           SelectedForSizing(m, c) =>
              /\ ScoreOf(m, c) # NaN
              /\ Less(Zero, ScoreOf(m, c))
              /\ Eligible(m, c)
              /\ AmongTopK(m, c)

\* The daily dates and the columns of the builder's output.
OutputDays == 1..Len(result.value.index)

NonZeroOn(t) == {c \in 1..Len(result.value.columns) : result.value.data[t][c][1] # 0}

\* The rebalance month whose row a daily date holds (0: none yet).
HeldMonth(t) == LatestAtOrBefore(locals.monthly_df.index, result.value.index[t])

\* Column c is not selected in month m: it is not the defensive ticker of
\* a fallback month and it has no score, fails the gate, or has at least
\* top_k eligible assets scoring strictly higher.
Unselected(m, c) ==
    /\ ~(~SomeScorePositive(m) /\ DefensiveConfigured
            /\ call.defensive_ticker = <<locals.monthly_df.columns[c]>>)
    /\ \/ ~SomeScorePositive(m)
       \/ ~Eligible(m, c)
       \/ ~AmongTopK(m, c)

\* C22: on every daily date of the rotation builder's output at most top_k
\* assets have a non-zero weight and every unselected asset has weight
\* exactly 0; the output has the price panel's date index and ticker columns
\* in the same order.
C22_AtMostTopKHeld ==
    RotationCalled =>
        /\ result.status = "returned"
        /\ result.value.index = call.prices[1].index
        /\ result.value.columns = call.prices[1].columns
        /\ \A t \in OutputDays :
              /\ Len(result.value.data[t]) = Len(result.value.columns)
              /\ Cardinality(NonZeroOn(t)) <= call.top_k
              /\ \A c \in 1..Len(result.value.columns) :
                    (HeldMonth(t) = 0 \/ Unselected(HeldMonth(t), c)) =>
                        result.value.data[t][c] = RtZero

\* Three assets have a score, two are asked for, and a daily date holds
\* exactly two non-zero weights.
C22_Witness ==
    /\ RotationCalled
    /\ call.top_k = 2
    /\ \E t \in OutputDays :
          /\ HeldMonth(t) # 0
          /\ Cardinality(NonZeroOn(t)) = 2
          /\ Cardinality({c \in PanelColumns : ScoreOf(HeldMonth(t), c) # NaN}) = 3
          /\ \E c \in PanelColumns :
                ScoreOf(HeldMonth(t), c) # NaN /\ result.value.data[t][c] = RtZero

\* The sum of absolute weights on daily date t of a table of sized weights.
GrossOn(table, t) == RtAbsSum(table.data[t])

PositiveCap == Less(Zero, call.max_gross_leverage)

\* C23: for every positive max_gross_leverage, also one below 1.0 combined
\* with a defensive allocation, the sum of absolute weights on every daily
\* date of the rotation builder's output is <= max_gross_leverage.
C23_GrossWithinCap ==
    (RotationCalled /\ PositiveCap) =>
        /\ result.status = "returned"
        /\ \A t \in OutputDays :
              ~RtLess(VolOf(call.max_gross_leverage), GrossOn(result.value, t))

\* A cap of 1/2 and a day that holds the defensive allocation of 1.0 before
\* the final re-cap: the day's gross exposure in the output is the cap.
C23_Witness ==
    /\ RotationCalled
    /\ call.max_gross_leverage = Half
    /\ call.defensive_ticker = <<"XLV">>
    /\ \E t \in OutputDays :
          /\ HeldMonth(t) # 0
          /\ ~SomeScorePositive(HeldMonth(t))
          /\ GrossOn(locals.daily_weights, t) = VolOf(One)
          /\ GrossOn(result.value, t) = VolOf(Half)

ScaleCalled == pc = "called" /\ call.fn = "scale_weights_to_target_vol"

SizedAssets == 1..Len(call.current_vols)

\* The sum over the assets of w_i^2 * vol_i^2 for the returned weights.
SizedVariance ==
    SumSet([i \in SizedAssets |-> Mul(result.value[i][2], call.current_vols[i][2])], SizedAssets)

TargetVariance == Mul(call.target_vol_annual, call.target_vol_annual)

\* Every volatility is positive, the target and the cap are positive and
\* there is an asset to size.
SizingWellPosed ==
    /\ ScaleCalled
    /\ SizedAssets # {}
    /\ \A i \in SizedAssets : ~IsNaNVol(call.current_vols[i]) /\ call.current_vols[i][1] > 0
    /\ Less(Zero, call.target_vol_annual)
    /\ PositiveCap

\* C25: for positive volatilities and a positive target (and cap),
\* scale_weights_to_target_vol returns weights in the proportions of the
\* risk weights such that either sum(w_i^2 * vol_i^2) = target^2 with gross
\* exposure <= max_gross_leverage, or gross exposure = max_gross_leverage
\* with sum(w_i^2 * vol_i^2) < target^2.
C25_TargetVolOrCap ==
    SizingWellPosed =>
        /\ Len(result.value) = Len(call.risk_weights)
        /\ \A i, j \in SizedAssets :
              RtMul(result.value[i], VolOf(call.risk_weights[j]))
                 = RtMul(result.value[j], VolOf(call.risk_weights[i]))
        /\ \A i \in SizedAssets : result.value[i][1] = 1
        /\ \/ /\ SizedVariance = TargetVariance
              /\ ~RtLess(VolOf(call.max_gross_leverage), RtAbsSum(result.value))
           \/ /\ RtAbsSum(result.value) = VolOf(call.max_gross_leverage)
              /\ Less(SizedVariance, TargetVariance)

\* Two assets of different volatility, inverse-volatility weights 2/3 and
\* 1/3, and a target high enough for the cap to bind.
C25_Witness ==
    /\ SizingWellPosed
    /\ Len(call.current_vols) = 2
    /\ call.risk_weights = <<<<2, 3>>, <<1, 3>>>>
    /\ RtAbsSum(result.value) = VolOf(call.max_gross_leverage)
    /\ Less(SizedVariance, TargetVariance)

\* A sizing operation was called with a zero or negative leverage cap.
NonPositiveCapCall ==
    /\ pc = "called"
    /\ call.fn \in {"scale_weights_to_target_vol", "build_monthly_rotation_weights"}
    /\ LessEq(call.max_gross_leverage, Zero)

\* C26: scale_weights_to_target_vol and build_monthly_rotation_weights called
\* with a zero or negative max_gross_leverage raise a configuration error and
\* return no weights (as cap_gross_leverage does).
C26_NonPositiveCapRaises == NonPositiveCapCall => result.status = "ValueError"

VolCalled == pc = "called" /\ call.fn \in {"scale_weights_to_target_vol", "build_vol_target_weights"}

\* The volatility of asset i on the sizing date is missing or zero.
VolUnusable(i) == IsNaNVol(call.current_vols[i]) \/ call.current_vols[i][1] = 0

\* C27: scale_weights_to_target_vol and build_vol_target_weights return
\* without raising and give weight exactly 0 to every asset whose volatility
\* on the sizing date is missing or zero, whatever the other volatilities are.
C27_UnusableVolZeroWeight ==
    VolCalled =>
        /\ result.status = "returned"
        /\ Len(result.value) = Len(call.current_vols)
        /\ \A i \in SizedAssets : VolUnusable(i) => result.value[i] = RtZero

CapCalled == "fn" \in DOMAIN call /\ call.fn = "cap_gross_leverage"

\* The sum of absolute weights of day t of a schedule, missing ones skipped.
GrossOfDay(w, t) == SumSkipNa(Mat([c \in 1..NCols(w) |-> AbsQ(w.data[t][c])]))

\* C30: cap_gross_leverage with a positive cap scales every day whose sum
\* of absolute weights exceeds the cap by the one factor cap / gross, so the
\* day's gross exposure equals the cap and signs and ratios are kept; it
\* returns every other day unchanged; and a second application with the
\* same cap returns what the first returned.
C30_CapScalesOverDaysOnce ==
    (CapCalled /\ PositiveCap) =>
        /\ pc = "returned" =>
              /\ ret.status = "returned"
              /\ ret.value.index = weights.index /\ ret.value.columns = weights.columns
              /\ \A t \in 1..NRows(weights) :
                    IF Less(call.max_gross_leverage, GrossOfDay(weights, t))
                    THEN /\ GrossOfDay(ret.value, t) = call.max_gross_leverage
                         /\ \A c \in 1..NCols(weights) :
                               ret.value.data[t][c]
                                  = Mul(weights.data[t][c],
                                        Div(call.max_gross_leverage, GrossOfDay(weights, t)))
                    ELSE ret.value.data[t] = weights.data[t]
        /\ pc = "capped_again" => ret.status = "returned" /\ ret.value = locals.once

\* A schedule with a day over the cap of 1 and a day under it, capped twice:
\* the first call changed the schedule, the second changed nothing.
C30_Witness ==
    /\ CapCalled
    /\ pc = "capped_again"
    /\ call.max_gross_leverage = One
    /\ \E t, u \in 1..NRows(weights) :
          /\ Less(One, GrossOfDay(weights, t))
          /\ Less(GrossOfDay(weights, u), One)
          /\ locals.once.data[t] # weights.data[t]
          /\ locals.once.data[u] = weights.data[u]
    /\ ret.value = locals.once

MetricCalled(fn) == pc = "called" /\ "fn" \in DOMAIN call /\ call.fn = fn

IsNaNMetric == result.status = "returned" /\ result.value = NaNVol

\* The values of the series that are present are all the same (or none is).
ConstantSeries(xs) == \A i, j \in 1..Len(xs) : (~IsNaN(xs[i]) /\ ~IsNaN(xs[j])) => xs[i] = xs[j]

\* The shortfalls of the returns below the daily target are all the same:
\* the downside deviation is zero.
NoDownsideDeviation(xs, target_return_annual) ==
    LET short(x) == IF Less(Mul(x, <<TRADING_DAYS, 1>>), target_return_annual)
                    THEN Sub(Mul(x, <<TRADING_DAYS, 1>>), target_return_annual)
                    ELSE Zero
    IN  \A i, j \in 1..Len(xs) : (~IsNaN(xs[i]) /\ ~IsNaN(xs[j])) => short(xs[i]) = short(xs[j])

\* No return is a loss: the equity curve never falls, the max drawdown is 0.
NoDrawdown(xs) == \A i \in 1..Len(xs) : ~Less(xs[i], Zero)

\* The number of dates the two series of a pair metric share.
CommonDates ==
    Cardinality({d \in {call.args[1].index[i] : i \in 1..Len(call.args[1].index)} :
                    \E j \in 1..Len(call.args[2].index) : call.args[2].index[j] = d})

\* C28: undefined metrics are returned as not-a-number and never raised:
\* compute_sharpe, compute_sortino and compute_calmar return NaN for an empty
\* series and when their denominator (volatility, downside deviation, max
\* drawdown) is zero; compute_correlation and compute_information_ratio
\* return NaN when fewer than two dates are common to both series.
C28_UndefinedMetricIsNaN ==
    /\ MetricCalled("compute_sharpe") =>
          /\ result.status = "returned"
          /\ ConstantSeries(call.args[1].data) => IsNaNMetric
    /\ MetricCalled("compute_sortino") =>
          /\ result.status = "returned"
          /\ (call.args[1].data = <<>> \/ NoDownsideDeviation(call.args[1].data, call.args[3]))
                => IsNaNMetric
    /\ MetricCalled("compute_calmar") =>
          /\ result.status = "returned"
          /\ (call.args[1].data = <<>> \/ NoDrawdown(call.args[1].data)) => IsNaNMetric
    /\ (MetricCalled("compute_correlation") \/ MetricCalled("compute_information_ratio")) =>
          /\ result.status = "returned"
          /\ CommonDates < 2 => IsNaNMetric

\* A constant non-zero return series of three days: its volatility is zero
\* and its Sharpe ratio is not a number.
C28_Witness ==
    /\ MetricCalled("compute_sharpe")
    /\ call.args[1].data = <<Half, Half, Half>>
    /\ IsNaNMetric

SweepCalled(fn) == pc = "called" /\ "lists" \in DOMAIN call /\ call.fn = fn

SweepReturned == pc = "called" /\ "lists" \in DOMAIN call /\ result.status = "returned"

\* The values of an optional grid list: the single value None when the list
\* was left out, its own values when it was passed.
Axis(optional) ==
    IF optional = <<>> THEN << <<>> >>
    ELSE Mat([i \in 1..Len(optional[1]) |-> <<optional[1][i]>>])

\* The grid lists of the sweep that was called.
GridLists ==
    IF call.fn = "sweep_regime_ls_parameters"
    THEN <<call.lists[1], call.lists[2], Axis(call.lists[3]), Axis(call.lists[4]),
           Axis(call.lists[5])>>
    ELSE call.lists

\* The product of the lengths of lists l..Len(GridLists).
RECURSIVE LengthsFrom(_)
LengthsFrom(l) == IF l > Len(GridLists) THEN 1 ELSE Len(GridLists[l]) * LengthsFrom(l + 1)

GridSize == LengthsFrom(1)

\* The n-th grid point, counted with the last list varying fastest.
GridPoint(n) ==
    Mat([l \in 1..Len(GridLists) |->
           GridLists[l][(((n - 1) \div LengthsFrom(l + 1)) % Len(GridLists[l])) + 1]])

\* A grid value that may be None, as the one-value optional list of it.
Alone(value) == IF value = <<>> THEN <<>> ELSE <<<<value[1]>>>>

\* The sweep called again on the same inputs with the grid point g alone.
SweepAlone(g) ==
    CASE call.fn = "sweep_regime_parameters" ->
            sweep_regime_parameters(prices, call.args.tnx_yield, call.args.spy_prices,
                                    call.args.vix, <<g[1]>>, <<g[2]>>, <<g[3]>>,
                                    call.args.transaction_cost_bps, padFill)
      [] call.fn = "sweep_momentum_parameters" ->
            sweep_momentum_parameters(prices, <<g[1]>>, <<g[2]>>, <<g[3]>>,
                                      call.args.transaction_cost_bps, padFill)
      [] call.fn = "sweep_rotation_parameters" ->
            sweep_rotation_parameters(prices, <<g[1]>>, <<g[2]>>, <<g[3]>>, <<g[4]>>, <<g[5]>>,
                                      <<g[6]>>, <<g[7]>>, <<g[8]>>,
                                      call.args.transaction_cost_bps, call.args.split_date,
                                      padFill)
      [] call.fn = "sweep_regime_ls_parameters" ->
            sweep_regime_ls_parameters(prices, call.args.vol_df, call.args.regime_labels,
                                       call.args.spread_momentum, <<g[1]>>, <<g[2]>>,
                                       call.args.monthly_features, Alone(g[3]), Alone(g[4]),
                                       Alone(g[5]), call.args.transaction_cost_bps,
                                       call.args.split_date, padFill)

RowsOfGridPointsAlone ==
    \A n \in 1..Len(result.value) :
        n <= GridSize =>
            LET alone == SweepAlone(GridPoint(n))
            IN  alone.status = "returned" /\ alone.value = <<result.value[n]>>

\* C29: sweep iteration independence: the output of a sweep has exactly one
\* row per grid point (the product of the grid list lengths), the row of a
\* grid point is what the sweep of that grid point alone gives on the same
\* inputs, whatever the other grid points are, and the shared price panel
\* is the same after the sweep.
C29_SweepRowsIndependent ==
    /\ [](SweepReturned => Len(result.value) = GridSize /\ RowsOfGridPointsAlone)
    /\ [][prices' = prices]_vars


====
